---------------------------- MODULE Spec2Model ----------------------------
(***************************************************************************)
(* A model of the COLLADA loader of src/src/ColladaLoader.cc.              *)
(*                                                                         *)
(* Conventions.                                                            *)
(*  - C++ containers are 0-based; TLA+ sequences are 1-based.  At(s, i)    *)
(*    reads s[i] of the code.  std::map is a function with a finite        *)
(*    domain, the empty map being << >>.                                   *)
(*  - A string that the code takes apart (a URL with a leading '#') is a   *)
(*    sequence of atoms, "#" being one of them: << "#", "pos" >> is the    *)
(*    text "#pos".                                                         *)
(*  - The text of a float_array, <p>, <vcount> or <v> is its sequence of   *)
(*    tokens after boost::split / operator>>, each token the number it     *)
(*    parses to.                                                           *)
(*  - ignition::math::Vector3d is a 3-tuple of integers.  A Matrix4d is a  *)
(*    uniform scale followed by a translation, [s, t]: the subgroup of the *)
(*    affine maps that the integers close.  Normal sources hold axis       *)
(*    aligned vectors, for which Normalize is the sign of each component.  *)
(*  - The document is a flat list of the elements that carry an id, in     *)
(*    document pre-order: ElementId walks it front to back.                *)
(***************************************************************************)
EXTENDS Integers, Sequences, FiniteSets, TLC

VARIABLES
  doc,       \* the parsed XML document (tinyxml2::XMLDocument)
  loader,    \* ColladaLoaderPrivate: caches, materialMap, currentNodeName, meter
  call,      \* the running handler's arguments: [xml, transform]
  frame,     \* the locals of the running handler
  subMesh,   \* the SubMesh under construction
  mesh,      \* the Mesh: its sub-meshes in AddSubMesh order
  pc         \* the position of the running handler

vars == << doc, loader, call, frame, subMesh, mesh, pc >>

-----------------------------------------------------------------------------
(* Bounds of the model. *)

\* the most tokens a <p> stream holds
MaxTokens == 9

\* the most values a source holds when it is parsed on its own
MaxValues == 4

-----------------------------------------------------------------------------
(* Containers. *)

At(s, i) == s[i + 1]

Has(m, k) == k \in DOMAIN m

Put(m, k, v) == [x \in (DOMAIN m) \cup {k} |-> IF x = k THEN v ELSE m[x]]

EmptyMap == << >>

\* an attribute that the element does not have
NoAttr == << "(none)" >>

-----------------------------------------------------------------------------
(* ignition::math as far as the loader uses it. *)

\* A Matrix4d [s, r, t] scales by s, turns by r quarter turns about the z
\* axis and then translates by t.
Identity == [s |-> 1, r |-> 0, t |-> << 0, 0, 0 >>]

\* v turned by r quarter turns about the z axis
Turn(r, v) ==
  IF r = 0 THEN v
  ELSE IF r = 1 THEN << 0 - v[2], v[1], v[3] >>
  ELSE IF r = 2 THEN << 0 - v[1], 0 - v[2], v[3] >>
  ELSE << v[2], 0 - v[1], v[3] >>

\* Matrix4d * Matrix4d
MatMul(A, B) ==
  [s |-> A.s * B.s, r |-> (A.r + B.r) % 4,
   t |-> [i \in 1..3 |-> A.s * Turn(A.r, B.t)[i] + A.t[i]]]

\* Matrix4d * Vector3d
MatVec(T, v) == [i \in 1..3 |-> T.s * Turn(T.r, v)[i] + T.t[i]]

\* Matrix3d::Axis(axis, IGN_DTOR(angle)) as a Matrix4d, the axis being z and
\* the angle a multiple of 90 degrees
Axis(axis, angle) == [Identity EXCEPT !.r = (angle \div 90) % 4]

\* Matrix4d::Translate(Vector3d::Zero)
ZeroTranslation(T) == [T EXCEPT !.t = << 0, 0, 0 >>]

Sign(x) == IF x > 0 THEN 1 ELSE IF x < 0 THEN -1 ELSE 0

\* Vector3d::Normalize on an axis aligned vector
Normalize(v) == [i \in 1..3 |-> Sign(v[i])]

-----------------------------------------------------------------------------
(* ElementId. *)

StripHash(id) == IF Len(id) > 0 /\ id[1] = "#" THEN Tail(id) ELSE id

ElementMatches(e, name, id) ==
  \/ id = << >> /\ e.tag = name
  \/ e.id # NoAttr /\ e.id = id
  \/ e.sid # NoAttr /\ e.sid = id

\* the index in doc.elems of the element found, 0 for NULL
ElementId(name, ref) ==
  LET id == StripHash(ref)
      hits == {i \in 1..Len(doc.elems) : ElementMatches(doc.elems[i], name, id)}
  IN IF hits = {} THEN 0 ELSE CHOOSE i \in hits : \A j \in hits : i <= j

-----------------------------------------------------------------------------
(* The source cache and the accessor parser. *)

\* An attribute or child that an element lacks is a field its record lacks.
HasChild(e, name) == e # 0 /\ name \in DOMAIN doc.elems[e]

\* FirstChildElement(name) / Attribute(name) of element e, when it has one
Child(e, name) == doc.elems[e][name]

\* floatArrayXml && floatArrayXml->GetText() of the float_array of element e
HasFloatText(e) ==
  HasChild(e, "float_array") /\ Child(e, "float_array").text # << >>

\* what a read past the end of a std::vector yields when it does not fault
PastEnd == << "(past the end)" >>

\* values[i] of a std::vector: operator[] does not check i
Subscript(values, i) == IF i < Len(values) THEN At(values, i) ELSE PastEnd

\* a read through a null pointer, or a faulting read past the end of an
\* array, ends the process: the call never returns
Crashed(rs) == [rs EXCEPT !.pc = "crashed"]

\* ignerr << message: the error stream, kept with the loader that writes it
Err(ld, message) == [ld EXCEPT !.errors = Append(@, message)]

\* int count = 1; if (floatArrayXml && floatArrayXml->Attribute("count")) ...
FloatArrayCount(e) ==
  IF HasChild(e, "float_array") /\ "count" \in DOMAIN Child(e, "float_array")
  THEN Child(e, "float_array").count
  ELSE 1

\* if (count) ignerr << message; else ignlog << ...;
MissingFloatArray(ld, e, message) ==
  IF FloatArrayCount(e) # 0 THEN Err(ld, message) ELSE ld

\* a parser that records the predecessor instead of the first occurrence
DuplicateTargetPredecessor(unique, vec, index) == index - 1

\* unique[vec]: the index recorded for a value seen before
DuplicateTarget(unique, vec, index) == unique[vec]

\* one pass of "create a map of duplicate indices" after _values.push_back(vec)
RecordDuplicate(acc, vec) ==
  LET values == Append(acc.values, vec)
      index == Len(values) - 1
  IN IF Has(acc.unique, vec)
     THEN [values |-> values,
           duplicates |-> Put(acc.duplicates, index,
                              DuplicateTarget(acc.unique, vec, index)),
           unique |-> acc.unique]
     ELSE [values |-> values,
           duplicates |-> acc.duplicates,
           unique |-> Put(acc.unique, vec, index)]

RECURSIVE PositionsLoop(_, _, _, _)
\* for (iter = strs.begin(); iter != end; iter += 3)
PositionsLoop(strs, i, T, acc) ==
  IF i >= Len(strs) THEN acc
  ELSE LET vec == MatVec(T, << At(strs, i), At(strs, i + 1), At(strs, i + 2) >>)
       IN PositionsLoop(strs, i + 3, T, RecordDuplicate(acc, vec))

\* positionDuplicateMap[_id] = _duplicates; positionIds[_id] = _values;
\* r holds the two buffers as the loop left them
CachePositions(ld, id, r) ==
  [loader |-> [ld EXCEPT !.positionDuplicateMap = Put(@, id, r.duplicates),
                         !.positionIds = Put(@, id, r.values)],
   values |-> r.values, duplicates |-> r.duplicates]

LoadPositions(ld, id, T, values, duplicates) ==
  IF Has(ld.positionIds, id)
  THEN [loader |-> ld, values |-> ld.positionIds[id],
        duplicates |-> ld.positionDuplicateMap[id]]
  ELSE LET sourceXml == ElementId(<< "source" >>, id)
       IN IF sourceXml = 0
          THEN [loader |-> Err(ld, "Unable to find source"),
                values |-> values, duplicates |-> duplicates]
          ELSE IF ~HasFloatText(sourceXml)
          THEN [loader |-> MissingFloatArray(ld, sourceXml,
                             "Vertex source missing float_array element"),
                values |-> values, duplicates |-> duplicates]
          ELSE CachePositions(ld, id,
                 PositionsLoop(Child(sourceXml, "float_array").text, 0, T,
                   [values |-> values, duplicates |-> duplicates,
                    unique |-> EmptyMap]))

RECURSIVE NormalsLoop(_, _, _, _)
\* do { iss >> vec.X() >> vec.Y() >> vec.Z(); if (iss) ... } while (iss)
NormalsLoop(strs, i, rotMat, acc) ==
  IF i + 3 > Len(strs) THEN acc
  ELSE LET vec == Normalize(MatVec(rotMat,
                     << At(strs, i), At(strs, i + 1), At(strs, i + 2) >>))
       IN NormalsLoop(strs, i + 3, rotMat, RecordDuplicate(acc, vec))

\* normalDuplicateMap[_id] = _duplicates; normalIds[_id] = _values;
CacheNormals(ld, id, r) ==
  [loader |-> [ld EXCEPT !.normalDuplicateMap = Put(@, id, r.duplicates),
                         !.normalIds = Put(@, id, r.values)],
   values |-> r.values, duplicates |-> r.duplicates]

LoadNormals(ld, id, T, values, duplicates) ==
  IF Has(ld.normalIds, id)
  THEN [loader |-> ld, values |-> ld.normalIds[id],
        duplicates |-> ld.normalDuplicateMap[id]]
  ELSE LET rotMat == ZeroTranslation(T)
           normalsXml == ElementId(<< "source" >>, id)
       IN IF normalsXml = 0
          THEN [loader |-> Err(ld, "Unable to find normals"),
                values |-> values, duplicates |-> duplicates]
          ELSE IF ~HasFloatText(normalsXml)
          THEN [loader |-> ld, values |-> values, duplicates |-> duplicates]
          ELSE CacheNormals(ld, id,
                 NormalsLoop(Child(normalsXml, "float_array").text, 0, rotMat,
                   [values |-> values, duplicates |-> duplicates,
                    unique |-> EmptyMap]))

RECURSIVE TexCoordsLoop(_, _, _, _, _)
\* for (int i = 0; i < totCount; i += stride)
TexCoordsLoop(strs, i, totCount, stride, acc) ==
  IF i >= totCount THEN acc
  ELSE LET vec == << At(strs, i), 1 - At(strs, i + 1) >>
       IN TexCoordsLoop(strs, i + stride, totCount, stride,
                        RecordDuplicate(acc, vec))

\* texcoordDuplicateMap[_id] = _duplicates; texcoordIds[_id] = _values;
CacheTexCoords(ld, id, r) ==
  [loader |-> [ld EXCEPT !.texcoordDuplicateMap = Put(@, id, r.duplicates),
                         !.texcoordIds = Put(@, id, r.values)],
   values |-> r.values, duplicates |-> r.duplicates]

\* ignerr << message; return;
TexCoordsError(ld, message, values, duplicates) ==
  [loader |-> Err(ld, message), values |-> values, duplicates |-> duplicates]

LoadTexCoords(ld, id, values, duplicates) ==
  IF Has(ld.texcoordIds, id)
  THEN [loader |-> ld, values |-> ld.texcoordIds[id],
        duplicates |-> ld.texcoordDuplicateMap[id]]
  ELSE LET xml == ElementId(<< "source" >>, id)
           floatArrayXml == Child(xml, "float_array")
           accessor == Child(xml, "accessor")
           unchanged == [loader |-> ld, values |-> values,
                         duplicates |-> duplicates]
       IN IF xml = 0
          THEN TexCoordsError(ld, "Unable to find tex coords", values, duplicates)
          ELSE IF ~HasFloatText(xml)
          THEN [loader |-> MissingFloatArray(ld, xml,
                             "Normal source missing float_array element"),
                values |-> values, duplicates |-> duplicates]
          ELSE IF "count" \notin DOMAIN floatArrayXml
          THEN TexCoordsError(ld, "<float_array> has no count attribute",
                              values, duplicates)
          ELSE IF ~HasChild(xml, "accessor")
          THEN TexCoordsError(ld, "Unable to find <accessor>", values, duplicates)
          ELSE IF "stride" \notin DOMAIN accessor
          THEN TexCoordsError(ld, "<accessor> has no stride attribute",
                              values, duplicates)
          ELSE IF "count" \notin DOMAIN accessor
          THEN TexCoordsError(ld, "<accessor> has no count attribute",
                              values, duplicates)
          ELSE IF accessor.count * accessor.stride # floatArrayXml.count
          THEN TexCoordsError(ld, "Error reading texture coordinates",
                              values, duplicates)
          ELSE IF floatArrayXml.count = 0 THEN unchanged
          ELSE CacheTexCoords(ld, id,
                 TexCoordsLoop(floatArrayXml.text, 0, floatArrayXml.count,
                   accessor.stride,
                   [values |-> values, duplicates |-> duplicates,
                    unique |-> EmptyMap]))

\* the buffers of LoadVertices after LoadNormals returned r
NormalsLoaded(st, r) ==
  [st EXCEPT !.loader = r.loader, !.norms = r.values, !.normDups = r.duplicates]

\* the buffers of LoadVertices after LoadPositions returned r
PositionsLoaded(st, r) ==
  [st EXCEPT !.loader = r.loader, !.verts = r.values, !.vertDups = r.duplicates]

RECURSIVE VerticesInputs(_, _, _, _)
\* the while (inputXml) loop of LoadVertices; st carries the loader and the
\* four caller buffers
VerticesInputs(inputs, i, T, st) ==
  IF i > Len(inputs) THEN st
  ELSE LET in == inputs[i]
       IN IF in.semantic = "NORMAL"
          THEN VerticesInputs(inputs, i + 1, T,
                 NormalsLoaded(st, LoadNormals(st.loader, in.source, T,
                                               st.norms, st.normDups)))
          ELSE IF in.semantic = "POSITION"
          THEN VerticesInputs(inputs, i + 1, T,
                 PositionsLoaded(st, LoadPositions(st.loader, in.source, T,
                                                   st.verts, st.vertDups)))
          ELSE VerticesInputs(inputs, i + 1, T, st)

LoadVertices(ld, id, T, verts, norms, vertDups, normDups) ==
  LET verticesXml == ElementId(<< "vertices" >>, id)
      st == [loader |-> ld, verts |-> verts, norms |-> norms,
             vertDups |-> vertDups, normDups |-> normDups]
  IN IF verticesXml = 0
     THEN [st EXCEPT !.loader = Err(ld, "Unable to find vertices")]
     ELSE IF ~HasChild(verticesXml, "input") THEN st
     ELSE VerticesInputs(Child(verticesXml, "input"), 1, T, st)

-----------------------------------------------------------------------------
(* SubMesh, Mesh and Skeleton: the container operations the loader calls. *)

NewSubMesh(name, primitiveType) ==
  [name |-> name, primitiveType |-> primitiveType, materialIndex |-> -1,
   vertices |-> << >>, normals |-> << >>, texcoords |-> << >>,
   indices |-> << >>, nodeAssignments |-> << >>]

AddVertex(sm, v) == [sm EXCEPT !.vertices = Append(@, v)]

AddNormal(sm, n) == [sm EXCEPT !.normals = Append(@, n)]

AddTexCoord(sm, uv) == [sm EXCEPT !.texcoords = Append(@, uv)]

AddIndex(sm, i) == [sm EXCEPT !.indices = Append(@, i)]

VertexCount(sm) == Len(sm.vertices)

SetVertex(sm, i, v) == [sm EXCEPT !.vertices[i + 1] = v]

AddNodeAssignment(sm, vertexIndex, node, weight) ==
  [sm EXCEPT !.nodeAssignments =
     Append(@, [vertexIndex |-> vertexIndex, node |-> node, weight |-> weight])]

NewMesh == [subMeshes |-> << >>, materials |-> << >>, skeleton |-> << >>]

\* new Skeleton(root): nodes is the tree under root in pre-order, a node's
\* handle its place in it
NewSkeleton(nodes) ==
  [nodes |-> nodes, bindShape |-> Identity, vertNodeWeights |-> << >>,
   animations |-> << >>]

SetSkeleton(msh, skel) == [msh EXCEPT !.skeleton = << skel >>]

\* Skeleton::SetNumVertAttached
SetNumVertAttached(skel, n) ==
  [skel EXCEPT !.vertNodeWeights =
     [k \in 1..n |-> IF k <= Len(@) THEN @[k] ELSE << >>]]

\* Skeleton::AddVertNodeWeight
AddVertNodeWeight(skel, vertex, node, weight) ==
  IF vertex + 1 \in DOMAIN skel.vertNodeWeights
  THEN [skel EXCEPT !.vertNodeWeights[vertex + 1] =
          Append(@, << node, weight >>)]
  ELSE skel

\* Skeleton::NodeByName(name)->Handle(); -1 stands for the read through the
\* NULL that NodeByName returns for a name the skeleton lacks
NodeHandle(skel, name) ==
  LET hits == {k \in 1..Len(skel.nodes) : skel.nodes[k].name = name}
  IN IF hits = {} THEN -1
     ELSE skel.nodes[CHOOSE k \in hits : \A x \in hits : k <= x].handle

\* Skeleton::NodeByName(name)->SetInverseBindTransform(mat)
SetInverseBindTransform(skel, name, mat) ==
  [skel EXCEPT !.nodes =
     [k \in 1..Len(@) |->
        IF @[k].handle = NodeHandle(skel, name)
        THEN [@[k] EXCEPT !.invBindTransform = mat] ELSE @[k]]]

HasSkeleton(msh) == msh.skeleton # << >>

MeshSkeleton(msh) == msh.skeleton[1]

AddSubMesh(msh, sm) == [msh EXCEPT !.subMeshes = Append(@, sm)]

\* the attachments of source vertex i, none for a vertex the skeleton lacks
VertNodeWeights(skel, i) ==
  IF i + 1 \in DOMAIN skel.vertNodeWeights THEN At(skel.vertNodeWeights, i)
  ELSE << >>

-----------------------------------------------------------------------------
(* The geometry weaver: LoadTriangles and LoadPolylist. *)

VERTEX == 0
NORMAL == 1
TEXCOORD == 2

\* the indices that `values` is read at: an input offset is 0, 1 or 2
ValuesDomain == 0..2

\* the locals of LoadTriangles / LoadPolylist / LoadLines at their declaration
NewFrame(kind, transform) ==
  [kind |-> kind, transform |-> transform,
   verts |-> << >>, norms |-> << >>, texcoords |-> << >>,
   otherSemantics |-> TEXCOORD + 1,
   hasVertices |-> FALSE, hasNormals |-> FALSE, hasTexcoords |-> FALSE,
   combinedVertNorms |-> FALSE, offsetSize |-> 0, inputs |-> EmptyMap,
   texDupMap |-> EmptyMap, normalDupMap |-> EmptyMap,
   positionDupMap |-> EmptyMap, vertexIndexMap |-> EmptyMap,
   values |-> [i \in ValuesDomain |-> 0],
   inputXml |-> 1, j |-> 0, l |-> 0, k |-> 2, strs_iter |-> 0]

\* the VERTEX branch after LoadVertices returned r
VertexInput(fr, in, r) ==
  [loader |-> r.loader,
   frame |-> [fr EXCEPT
     !.verts = r.verts, !.norms = r.norms,
     !.positionDupMap = r.vertDups, !.normalDupMap = r.normDups,
     !.combinedVertNorms = IF Len(r.norms) > Len(fr.norms) THEN TRUE ELSE @,
     !.inputs = Put(@, VERTEX, in.offset),
     !.hasVertices = TRUE]]

\* the NORMAL branch after LoadNormals returned r
NormalInput(fr, in, r) ==
  [loader |-> r.loader,
   frame |-> [fr EXCEPT
     !.norms = r.values, !.normalDupMap = r.duplicates,
     !.combinedVertNorms = FALSE,
     !.inputs = Put(@, NORMAL, in.offset),
     !.hasNormals = TRUE]]

\* the TEXCOORD branch after LoadTexCoords returned r
TexCoordInput(fr, in, r) ==
  [loader |-> r.loader,
   frame |-> [fr EXCEPT
     !.texcoords = r.values, !.texDupMap = r.duplicates,
     !.inputs = Put(@, TEXCOORD, in.offset),
     !.hasTexcoords = TRUE]]

\* the body of the while (inputXml) loop, but for offsetSize++.  With
\* oneUvSet (LoadTriangles) a second TEXCOORD input falls to the last branch.
ReadInput(fr, ld, in, oneUvSet) ==
  IF in.semantic = "VERTEX"
  THEN VertexInput(fr, in,
         LoadVertices(ld, in.source, fr.transform, fr.verts, fr.norms,
                      fr.positionDupMap, fr.normalDupMap))
  ELSE IF in.semantic = "NORMAL"
  THEN NormalInput(fr, in,
         LoadNormals(ld, in.source, fr.transform, fr.norms, fr.normalDupMap))
  ELSE IF in.semantic = "TEXCOORD" /\ (oneUvSet => ~fr.hasTexcoords)
  THEN TexCoordInput(fr, in,
         LoadTexCoords(ld, in.source, fr.texcoords, fr.texDupMap))
  ELSE [loader |-> ld,
        frame |-> [fr EXCEPT
          !.inputs = Put(@, fr.otherSemantics, in.offset),
          !.otherSemantics = @ + 1]]

TrianglesInput(fr, ld, in) ==
  LET r == ReadInput(fr, ld, in, TRUE)
  IN [r EXCEPT !.frame.offsetSize = @ + 1, !.frame.inputXml = @ + 1]

PolylistInput(fr, ld, in) ==
  LET r == ReadInput(fr, ld, in, FALSE)
  IN [r EXCEPT !.frame.inputXml = @ + 1]

\* if (dupMap.find(index) != dupMap.end()) index = dupMap[index];
Remap(dupMap, index) == IF Has(dupMap, index) THEN dupMap[index] ELSE index

\* a weaver that numbers the new vertex one too high
NewVertIndexPastEnd(sm) == VertexCount(sm)

\* subMesh->VertexCount()-1 after AddVertex
NewVertIndex(sm) == VertexCount(sm) - 1

\* vertexIndexMap[daeVertIndex] = inputValues, inputValues holding `input` alone
StoreGeometryIndices(vertexIndexMap, daeVertIndex, input) ==
  Put(vertexIndexMap, daeVertIndex, << input >>)

\* the normal pushed with a new vertex when combinedVertNorms
CombinedNormal(fr, sm, daeVertIndex) ==
  IF fr.combinedVertNorms THEN AddNormal(sm, Subscript(fr.norms, daeVertIndex)) ELSE sm

RECURSIVE NodeAssignments(_, _, _, _, _)
\* for (i = 0; i < skel->VertNodeWeightCount(v); ++i) AddNodeAssignment(...)
NodeAssignments(sm, skel, weights, i, vertexIndex) ==
  IF i > Len(weights) THEN sm
  ELSE NodeAssignments(
         AddNodeAssignment(sm, vertexIndex, NodeHandle(skel, weights[i][1]),
                           weights[i][2]),
         skel, weights, i + 1, vertexIndex)

\* if (_mesh->HasSkeleton()) { ... } of LoadTriangles: the attachments are
\* looked up under values[daeVertIndex]
TrianglesSkin(sm, msh, values, daeVertIndex, newVertIndex) ==
  IF ~HasSkeleton(msh) THEN sm
  ELSE NodeAssignments(sm, MeshSkeleton(msh),
         VertNodeWeights(MeshSkeleton(msh), values[daeVertIndex]), 1,
         VertexCount(sm) - 1)

\* if (_mesh->HasSkeleton()) { ... } of LoadPolylist
PolylistSkin(sm, msh, values, daeVertIndex, newVertIndex) ==
  IF ~HasSkeleton(msh) THEN sm
  ELSE NodeAssignments(
         SetVertex(sm, newVertIndex,
           MatVec(MeshSkeleton(msh).bindShape, At(sm.vertices, newVertIndex))),
         MeshSkeleton(msh),
         VertNodeWeights(MeshSkeleton(msh), daeVertIndex), 1,
         VertexCount(sm) - 1)

\* One corner: from "unsigned int daeVertIndex = 0" to the end of
\* "if (addIndex)".  values is the W-tuple just read; poly selects the
\* skeleton block of LoadPolylist.
WeaveCorner(fr, sm, msh, values, poly) ==
  LET daeVertIndex ==
        IF fr.hasVertices
        THEN Remap(fr.positionDupMap, values[fr.inputs[VERTEX]]) ELSE 0
      remappedNormalIndex == Remap(fr.normalDupMap, values[fr.inputs[NORMAL]])
      remappedTexcoordIndex == Remap(fr.texDupMap, values[fr.inputs[TEXCOORD]])
      inputValues ==
        IF fr.hasVertices /\ Has(fr.vertexIndexMap, daeVertIndex)
        THEN fr.vertexIndexMap[daeVertIndex] ELSE << >>
      shared == {i \in 1..Len(inputValues) :
                   /\ ~fr.hasNormals
                      \/ inputValues[i].normalIndex = remappedNormalIndex
                   /\ ~fr.hasTexcoords
                      \/ inputValues[i].texcoordIndex = remappedTexcoordIndex}
  IN IF shared # {}
     THEN LET iv == inputValues[CHOOSE i \in shared : \A x \in shared : i <= x]
          IN [frame |-> fr, subMesh |-> AddIndex(sm, iv.mappedIndex)]
     ELSE LET sm0 == AddVertex(sm, Subscript(fr.verts, daeVertIndex))
              newVertIndex == NewVertIndex(sm0)
              sm1 == CombinedNormal(fr, AddIndex(sm0, newVertIndex), daeVertIndex)
              sm2 == IF ~fr.hasVertices THEN sm
                     ELSE IF poly
                     THEN PolylistSkin(sm1, msh, values, daeVertIndex, newVertIndex)
                     ELSE TrianglesSkin(sm1, msh, values, daeVertIndex, newVertIndex)
              sm3 == IF fr.hasNormals
                     THEN AddNormal(sm2, Subscript(fr.norms, remappedNormalIndex))
                     ELSE sm2
              sm4 == IF fr.hasTexcoords
                     THEN AddTexCoord(sm3, Subscript(fr.texcoords,
                                                     remappedTexcoordIndex))
                     ELSE sm3
              input == [vertexIndex |-> daeVertIndex,
                        mappedIndex |-> newVertIndex,
                        normalIndex |->
                          IF fr.hasNormals THEN remappedNormalIndex ELSE 0,
                        texcoordIndex |->
                          IF fr.hasTexcoords THEN remappedTexcoordIndex ELSE 0]
          IN [frame |-> IF fr.hasVertices
                        THEN [fr EXCEPT !.vertexIndexMap =
                               StoreGeometryIndices(@, daeVertIndex, input)]
                        ELSE fr,
              subMesh |-> sm4]

TrianglesCorner(fr, sm, msh, values) == WeaveCorner(fr, sm, msh, values, FALSE)

PolylistCorner(fr, sm, msh, values) == WeaveCorner(fr, sm, msh, values, TRUE)

-----------------------------------------------------------------------------
(* Materials. *)

\* Mesh::IndexOfMaterial: the index of the material, -1 when the mesh lacks it
IndexOfMaterial(msh, mat) ==
  LET hits == {i \in 1..Len(msh.materials) : << msh.materials[i] >> = mat}
  IN IF mat = << >> \/ hits = {} THEN -1
     ELSE (CHOOSE i \in hits : \A x \in hits : i <= x) - 1

\* LoadMaterial: << >> is the NULL MaterialPtr, << m >> a material.  A new
\* Material is a new object: ptr numbers the allocations of this loader.
LoadMaterial(ld, name) ==
  IF Has(ld.materialIds, name)
  THEN [loader |-> ld, mat |-> ld.materialIds[name]]
  ELSE LET matXml == ElementId(<< "material" >>, name)
       IN IF matXml = 0 \/ ~HasChild(matXml, "instance_effect")
          THEN [loader |-> ld, mat |-> << >>]
          ELSE LET mat == << [ptr |-> ld.allocated + 1, xml |-> matXml] >>
               IN [loader |-> [ld EXCEPT !.materialIds = Put(@, name, mat),
                                         !.allocated = @ + 1],
                   mat |-> mat]

\* if (xml->Attribute("material")) { ... } at the head of LoadTriangles and
\* LoadPolylist; rs is the running state [loader, frame, subMesh, mesh, pc]
BindMaterial(rs, xml) ==
  IF "material" \notin DOMAIN xml THEN rs
  ELSE LET attr == xml.material
           matStr == IF Has(rs.loader.materialMap, attr)
                     THEN rs.loader.materialMap[attr] ELSE attr
           r == LoadMaterial(rs.loader, matStr)
           found == IndexOfMaterial(rs.mesh, r.mat)
           added == found < 0 /\ r.mat # << >>
           matIndex == IF found >= 0 THEN found
                       ELSE IF added THEN Len(rs.mesh.materials) ELSE -1
       IN [rs EXCEPT
             !.loader = r.loader,
             !.mesh.materials = IF added THEN Append(@, r.mat[1]) ELSE @,
             !.subMesh.materialIndex = IF matIndex < 0 THEN @ ELSE matIndex]

-----------------------------------------------------------------------------
(* LoadTriangles, LoadPolylist and LoadLines, a step at a time.  A running  *)
(* state rs is [loader, frame, subMesh, mesh, pc]; xml is the primitive     *)
(* element, a record [kind, input, p, vcount, material].  A read past the   *)
(* end of strs or of values yields `garbage`.                               *)

\* values[i] = parseInt(strs[base + i]) for i < size; garbage[i] is what a
\* read past the end of strs, or of values itself, finds
ReadValues(strs, base, size, garbage) ==
  [i \in ValuesDomain |->
     IF i < size /\ base + i < Len(strs) THEN At(strs, base + i)
     ELSE garbage[i]]

\* the head of LoadTriangles, up to the input loop
TrianglesBegin(rs, xml, transform) ==
  BindMaterial(
    [rs EXCEPT !.subMesh = NewSubMesh(rs.loader.currentNodeName, "TRIANGLES"),
               !.frame = NewFrame("triangles", transform),
               !.pc = "inputs"], xml)

\* the running state with the loader and the frame that r holds
InputRead(rs, r) == [rs EXCEPT !.loader = r.loader, !.frame = r.frame]

\* one pass of while (trianglesInputXml)
TrianglesReadInput(rs, xml) ==
  InputRead(rs,
    TrianglesInput(rs.frame, rs.loader, xml.input[rs.frame.inputXml]))

\* boost::lexical_cast<int> of an attribute [number, value]: it throws when
\* the text is no number, and `otherwise` is what the variable then keeps
LexicalCast(attr, otherwise) == IF attr.number THEN attr.value ELSE otherwise

\* int count = 1; if (Attribute("count")) try { count = lexical_cast } ...
TrianglesCount(xml) ==
  IF "count" \in DOMAIN xml THEN LexicalCast(xml.count, 1) ELSE 1

\* if (count) ignerr << ... else ignlog << ...
MissingP(ld, xml) ==
  IF TrianglesCount(xml) # 0
  THEN Err(ld, "Collada file is invalid. Loading what we can...")
  ELSE ld

\* if (!pXml || !pXml->GetText()) { ... return; }
TrianglesReadP(rs, xml) ==
  IF "p" \notin DOMAIN xml \/ xml.p = << >>
  THEN [rs EXCEPT !.loader = MissingP(@, xml), !.pc = "return"]
  ELSE [rs EXCEPT !.pc = "corners"]

\* the stride of the for (j ...) loop of LoadTriangles
TrianglesStride(fr) == fr.offsetSize

\* What the reads of one corner can find.  garbage[i] matters only where the
\* read of strs[base + i], or of values[i], is past the end, and where the
\* corner reads values[i] at all: i is the offset of an input.
Garbage(fr, strs, base, size) ==
  {g \in [ValuesDomain -> 0..1] :
     \A i \in ValuesDomain :
        \/ i < size /\ base + i < Len(strs)
        \/ \A s \in DOMAIN fr.inputs : fr.inputs[s] # i
        => g[i] = 0}

\* one pass of for (j = 0; j < strs.size(); j += offsetSize)
TrianglesLoop(rs, xml, garbage) ==
  LET values == ReadValues(xml.p, rs.frame.j, rs.frame.offsetSize, garbage)
      r == TrianglesCorner(rs.frame, rs.subMesh, rs.mesh, values)
  IN [rs EXCEPT !.frame = [r.frame EXCEPT !.j = @ + TrianglesStride(rs.frame),
                                          !.values = values],
                !.subMesh = r.subMesh]

\* _mesh->AddSubMesh(subMesh)
PrimitiveEnd(rs) ==
  [rs EXCEPT !.mesh = AddSubMesh(@, rs.subMesh), !.pc = "return"]

\* the head of LoadPolylist, up to the input loop
PolylistBegin(rs, xml, transform) ==
  BindMaterial(
    [rs EXCEPT !.subMesh = NewSubMesh(rs.loader.currentNodeName, "TRIANGLES"),
               !.frame = NewFrame("polylist", transform),
               !.pc = "inputs"], xml)

\* one pass of while (polylistInputXml)
PolylistReadInput(rs, xml) ==
  InputRead(rs,
    PolylistInput(rs.frame, rs.loader, xml.input[rs.frame.inputXml]))

\* inputs.size()
InputsSize(fr) == Cardinality(DOMAIN fr.inputs)

RECURSIVE NextPolygon(_, _, _, _)
\* the for (l ...) loop entered at polygon l (0-based) with the stream at
\* iter: "if (l > 0) strs_iter += inputs.size()*vcounts[l-1]", skipping the
\* polygons whose k loop does not run
NextPolygon(vcounts, l, iter, size) ==
  IF l >= Len(vcounts) THEN [l |-> l, strs_iter |-> iter]
  ELSE LET it == IF l > 0 THEN iter + size * At(vcounts, l - 1) ELSE iter
       IN IF 2 < At(vcounts, l) THEN [l |-> l, strs_iter |-> it]
          ELSE NextPolygon(vcounts, l + 1, it, size)

\* read vcount and p, and enter the loops
PolylistReadP(rs, xml) ==
  LET n == NextPolygon(xml.vcount, 0, 0, InputsSize(rs.frame))
  IN [rs EXCEPT !.frame.l = n.l, !.frame.strs_iter = n.strs_iter,
                !.frame.k = 2, !.frame.j = 0, !.pc = "corners"]

\* a fan whose triangles are wound the other way: (0, k, k-1)
TriangleIndexReversed(j, k, size) ==
  IF j = 0 THEN 0 ELSE IF j = 1 THEN k * size ELSE (k - 1) * size

\* triangle_index of corner j of the triangle that ends at k
TriangleIndex(j, k, size) ==
  IF j = 0 THEN 0 ELSE IF j = 1 THEN (k - 1) * size ELSE k * size

\* one pass of for (j = 0; j < 3; ++j), and the loop headers that follow it
PolylistLoop(rs, xml, garbage) ==
  LET fr == rs.frame
      size == InputsSize(fr)
      values == ReadValues(xml.p,
                  fr.strs_iter + TriangleIndex(fr.j, fr.k, size), size, garbage)
      r == PolylistCorner(fr, rs.subMesh, rs.mesh, values)
      n == NextPolygon(xml.vcount, fr.l + 1, fr.strs_iter, size)
  IN [rs EXCEPT
        !.subMesh = r.subMesh,
        !.frame =
          IF fr.j < 2 THEN [r.frame EXCEPT !.values = values, !.j = @ + 1]
          ELSE IF fr.k + 1 < At(xml.vcount, fr.l)
          THEN [r.frame EXCEPT !.values = values, !.j = 0, !.k = @ + 1]
          ELSE [r.frame EXCEPT !.values = values, !.j = 0, !.k = 2, !.l = n.l,
                               !.strs_iter = n.strs_iter]]

\* the head of LoadLines: the sub-mesh and LoadVertices of the first input
LinesVertices(rs, transform, r) ==
  [rs EXCEPT
     !.subMesh = NewSubMesh(rs.loader.currentNodeName, "LINES"),
     !.loader = r.loader,
     !.frame = [NewFrame("lines", transform) EXCEPT
                  !.verts = r.verts, !.norms = r.norms],
     !.pc = "corners"]

LinesBegin(rs, xml, transform) ==
  LinesVertices(rs, transform,
    LoadVertices(rs.loader, xml.input[1].source, transform,
                 << >>, << >>, EmptyMap, EmptyMap))

\* one pass of do { iss >> a >> b; ... } while (iss) that read a pair
LinesLoop(rs, xml) ==
  LET a == At(xml.p, rs.frame.j)
      b == At(xml.p, rs.frame.j + 1)
      sm1 == AddVertex(rs.subMesh, Subscript(rs.frame.verts, a))
      sm2 == AddIndex(sm1, VertexCount(sm1) - 1)
      sm3 == AddVertex(sm2, Subscript(rs.frame.verts, b))
      sm4 == AddIndex(sm3, VertexCount(sm3) - 1)
  IN [rs EXCEPT !.subMesh = sm4, !.frame.j = @ + 2]

-----------------------------------------------------------------------------
(* LoadTriangles, LoadPolylist, LoadLines and LoadGeometry as whole calls. *)

RECURSIVE TrianglesRun(_, _, _)
TrianglesRun(rs, xml, garbage) ==
  IF rs.pc = "inputs"
  THEN IF rs.frame.inputXml <= Len(xml.input)
       THEN TrianglesRun(TrianglesReadInput(rs, xml), xml, garbage)
       ELSE TrianglesRun(TrianglesReadP(rs, xml), xml, garbage)
  ELSE IF rs.pc = "corners"
  THEN IF rs.frame.j < Len(xml.p)
       THEN TrianglesRun(TrianglesLoop(rs, xml, garbage), xml, garbage)
       ELSE PrimitiveEnd(rs)
  ELSE rs

LoadTriangles(rs, xml, transform, garbage) ==
  TrianglesRun(TrianglesBegin(rs, xml, transform), xml, garbage)

RECURSIVE PolylistRun(_, _, _)
PolylistRun(rs, xml, garbage) ==
  IF rs.pc = "inputs"
  THEN IF rs.frame.inputXml <= Len(xml.input)
       THEN PolylistRun(PolylistReadInput(rs, xml), xml, garbage)
       ELSE PolylistRun(PolylistReadP(rs, xml), xml, garbage)
  ELSE IF rs.pc = "corners"
  THEN IF rs.frame.l < Len(xml.vcount)
       THEN PolylistRun(PolylistLoop(rs, xml, garbage), xml, garbage)
       ELSE PrimitiveEnd(rs)
  ELSE rs

LoadPolylist(rs, xml, transform, garbage) ==
  PolylistRun(PolylistBegin(rs, xml, transform), xml, garbage)

RECURSIVE LinesRun(_, _)
LinesRun(rs, xml) ==
  IF rs.frame.j + 2 <= Len(xml.p) THEN LinesRun(LinesLoop(rs, xml), xml)
  ELSE PrimitiveEnd(rs)

LoadLines(rs, xml, transform) == LinesRun(LinesBegin(rs, xml, transform), xml)

\* what a whole call reads past the end of a well-formed <p>: nothing
NoGarbage == [i \in ValuesDomain |-> 0]

\* a LoadGeometry that walks the <polylist> elements first
GeometryCallsPolylistFirst(geomXml) ==
  IF ~HasChild(geomXml, "mesh") THEN << >>
  ELSE LET meshXml == Child(geomXml, "mesh")
       IN meshXml.polylist \o meshXml.triangles \o meshXml.lines

\* the calls LoadGeometry makes on the <geometry> element geomXml, in order
GeometryCalls(geomXml) ==
  IF ~HasChild(geomXml, "mesh") THEN << >>
  ELSE LET meshXml == Child(geomXml, "mesh")
       IN meshXml.triangles \o meshXml.polylist \o meshXml.lines

\* one of those calls
LoadPrimitive(rs, xml, transform, garbage) ==
  IF xml.kind = "triangles" THEN LoadTriangles(rs, xml, transform, garbage)
  ELSE IF xml.kind = "polylist" THEN LoadPolylist(rs, xml, transform, garbage)
  ELSE LoadLines(rs, xml, transform)

RECURSIVE GeometryRun(_, _, _, _, _)
GeometryRun(rs, calls, i, transform, garbage) ==
  IF i > Len(calls) THEN rs
  ELSE GeometryRun(LoadPrimitive(rs, calls[i], transform, garbage),
                   calls, i + 1, transform, garbage)

\* _xml->FirstChildElement("mesh") is evaluated whatever _xml is
LoadGeometry(rs, geomXml, transform, garbage) ==
  IF geomXml = 0 THEN Crashed(rs)
  ELSE GeometryRun(rs, GeometryCalls(geomXml), 1, transform, garbage)

-----------------------------------------------------------------------------
(* Node transforms, skeleton nodes and LoadController.  A <node> element is *)
(* a record whose optional children matrix, translate and scale are fields  *)
(* [value, sid], whose child nodes are the field node (their places in      *)
(* doc.elems) and whose instances are the fields instance_geometry,         *)
(* instance_controller and instance_node.  Its <rotate> children are the    *)
(* field rotate, in document order, and the field order, when it has one,   *)
(* tells the document order of all of these children.                       *)

\* the <rotate> children of a node, in document order
Rotates(elem) == IF HasChild(elem, "rotate") THEN Child(elem, "rotate") ELSE << >>

RECURSIVE Rotated(_, _, _)
\* while (rotateXml) { ... transform = transform * mat4; ... }
Rotated(transform, rotates, i) ==
  IF i > Len(rotates) THEN transform
  ELSE Rotated(MatMul(transform,
                      Axis(rotates[i].value.axis, rotates[i].value.angle)),
               rotates, i + 1)

\* scaleMat.Scale(scale)
ScaleMat(scale) == [Identity EXCEPT !.s = scale]

\* LoadNodeTransform
LoadNodeTransform(elem) ==
  IF HasChild(elem, "matrix") THEN Child(elem, "matrix").value
  ELSE LET translated ==
             IF HasChild(elem, "translate")
             THEN [Identity EXCEPT !.t = Child(elem, "translate").value]
             ELSE Identity
           rotated == Rotated(translated, Rotates(elem), 1)
       IN IF HasChild(elem, "scale")
          THEN MatMul(rotated, ScaleMat(Child(elem, "scale").value))
          ELSE rotated

\* NodeTransform nt(...); nt.SetSID(...); nt.SetType(...)
RawTransform(type, value, sid) == [type |-> type, value |-> value, sid |-> sid]

\* what SetSID is given when the code reads the sid of the <matrix> child of
\* a node that has none
NullDeref == << "(null dereference)" >>

\* SetSkeletonNodeTransform: the raw transforms pushed, in order
RawTransforms(elem) ==
  IF HasChild(elem, "matrix")
  THEN << RawTransform("MATRIX", Child(elem, "matrix").value,
                       Child(elem, "matrix").sid) >>
  ELSE (IF HasChild(elem, "translate")
        THEN << RawTransform("TRANSLATE", Child(elem, "translate").value,
                             Child(elem, "translate").sid) >>
        ELSE << >>)
       \o [i \in 1..Len(Rotates(elem)) |->
             RawTransform("ROTATE", Rotates(elem)[i].value, Rotates(elem)[i].sid)]
       \o (IF HasChild(elem, "scale")
           THEN << RawTransform("SCALE", Child(elem, "scale").value, NullDeref) >>
           ELSE << >>)

RECURSIVE LoadSkeletonNodes(_, _, _)
RECURSIVE SkeletonChildren(_, _, _, _)
\* LoadSkeletonNodes(_xml, _parent): acc is the nodes made so far; the new
\* node is appended and then its <node> children, in document order
LoadSkeletonNodes(xml, parent, acc) ==
  LET e == doc.elems[xml]
      node == [name |-> IF e.sid # NoAttr THEN e.sid ELSE e.name,
               id |-> e.id,
               type |-> IF e.type = "NODE" THEN "NODE" ELSE "JOINT",
               parent |-> parent,
               handle |-> Len(acc),
               rawTransforms |-> RawTransforms(xml),
               transform |-> LoadNodeTransform(xml),
               invBindTransform |-> Identity]
  IN SkeletonChildren(IF HasChild(xml, "node") THEN Child(xml, "node") ELSE << >>,
                      1, node.handle, Append(acc, node))

SkeletonChildren(children, i, parent, acc) ==
  IF i > Len(children) THEN acc
  ELSE SkeletonChildren(children, i + 1, parent,
                        LoadSkeletonNodes(children[i], parent, acc))

\* the load of one of the nodes read the sid of a <matrix> child there is not
NullDereferenced(nodes) ==
  \E n \in 1..Len(nodes) :
    \E k \in 1..Len(nodes[n].rawTransforms) :
      nodes[n].rawTransforms[k].sid = NullDeref

\* the source of the last <input> of the given semantic, << >> when none
RECURSIVE LastInput(_, _, _)
LastInput(inputs, semantic, found) ==
  IF inputs = << >> THEN found
  ELSE LastInput(Tail(inputs), semantic,
                 IF Head(inputs).semantic = semantic THEN << Head(inputs) >>
                 ELSE found)

InputSource(inputs, semantic) ==
  LET in == LastInput(inputs, semantic, << >>)
  IN IF in = << >> THEN << >> ELSE in[1].source

InputOffset(inputs, semantic) ==
  LET in == LastInput(inputs, semantic, << >>)
  IN IF in = << >> THEN 0 ELSE in[1].offset

RECURSIVE InverseBindLoop(_, _, _, _)
\* for (i = 0; i < joints.size(); ++i) NodeByName(joints[i])->Set...(mat);
\* strs holds one token for the 16 numbers of a matrix
InverseBindLoop(skel, joints, strs, i) ==
  IF i >= Len(joints) THEN skel
  ELSE InverseBindLoop(
         SetInverseBindTransform(skel, At(joints, i), At(strs, i)),
         joints, strs, i + 1)

\* the weight loops entered at vertex i: the vertices without records are
\* passed over
RECURSIVE NextVertex(_, _)
NextVertex(vCount, i) ==
  IF i >= Len(vCount) \/ At(vCount, i) > 0 THEN i ELSE NextVertex(vCount, i + 1)

\* LoadController up to "unsigned int vIndex = 0"
ControllerBegin(rs, contrXml, skelXml, transform) ==
  LET skinXml == Child(contrXml, "skin")
      jointsURL == InputSource(skinXml.joints.input, "JOINT")
      invBindMatURL == InputSource(skinXml.joints.input, "INV_BIND_MATRIX")
      joints == Child(ElementId(<< "source" >>, jointsURL), "Name_array").text
      strs == Child(ElementId(<< "source" >>, invBindMatURL), "float_array").text
      vertWeightsXml == skinXml.vertex_weights
      weightsURL == InputSource(vertWeightsXml.input, "WEIGHT")
      weights == Child(ElementId(<< "source" >>, weightsURL), "float_array").text
      vCount == vertWeightsXml.vcount
      nodes == LoadSkeletonNodes(skelXml, -1, << >>)
      skeleton ==
        SetNumVertAttached(
          InverseBindLoop(
            [NewSkeleton(nodes) EXCEPT !.bindShape = skinXml.bind_shape_matrix],
            joints, strs, 0),
          Len(vCount))
  IN IF NullDereferenced(nodes) THEN Crashed(rs) ELSE
     [rs EXCEPT
        !.mesh = SetSkeleton(@, skeleton),
        !.frame = [kind |-> "controller", transform |-> transform,
                   geomURL |-> skinXml.source,
                   joints |-> joints, weights |-> weights,
                   jOffset |-> InputOffset(vertWeightsXml.input, "JOINT"),
                   wOffset |-> InputOffset(vertWeightsXml.input, "WEIGHT"),
                   vCount |-> vCount, v |-> vertWeightsXml.v,
                   vIndex |-> 0, i |-> NextVertex(vCount, 0), j |-> 0],
        !.pc = "weights"]

\* a loop that advances the cursor by the two offsets alone
RecordWidthWithoutOne(jOffset, wOffset) == jOffset + wOffset

\* vIndex += (jOffset + wOffset + 1)
RecordWidth(jOffset, wOffset) == jOffset + wOffset + 1

\* one pass of for (j = 0; j < vCount[i]; ++j), and the loop headers after it
ControllerWeight(rs) ==
  LET fr == rs.frame
      skel == AddVertNodeWeight(MeshSkeleton(rs.mesh), fr.i,
                At(fr.joints, At(fr.v, fr.vIndex + fr.jOffset)),
                At(fr.weights, At(fr.v, fr.vIndex + fr.wOffset)))
      last == fr.j + 1 >= At(fr.vCount, fr.i)
  IN [rs EXCEPT
        !.mesh = SetSkeleton(@, skel),
        !.frame.vIndex = @ + RecordWidth(fr.jOffset, fr.wOffset),
        !.frame.j = IF last THEN 0 ELSE @ + 1,
        !.frame.i = IF last THEN NextVertex(fr.vCount, @ + 1) ELSE @]

\* geomXml = ElementId("geometry", geomURL); LoadGeometry(geomXml, ...)
ControllerEnd(rs, garbage) ==
  LET r == LoadGeometry(rs, ElementId(<< "geometry" >>, rs.frame.geomURL),
                        rs.frame.transform, garbage)
  IN IF r.pc = "crashed" THEN r ELSE [r EXCEPT !.pc = "return"]

\* What the skeleton block of LoadTriangles can find at values[daeVertIndex]
\* when the skinned <triangles> has one input: values has one element, and
\* the read for daeVertIndex = 1 is past its end.
SkinGarbage == {g \in [ValuesDomain -> 0..1] : g[VERTEX] = 0 /\ g[TEXCOORD] = 0}

RECURSIVE ControllerRun(_, _)
ControllerRun(rs, garbage) ==
  IF rs.pc = "crashed" THEN rs
  ELSE IF rs.frame.i < Len(rs.frame.vCount)
  THEN ControllerRun(ControllerWeight(rs), garbage)
  ELSE ControllerEnd(rs, garbage)

LoadController(rs, contrXml, skelXml, transform, garbage) ==
  ControllerRun(ControllerBegin(rs, contrXml, skelXml, transform), garbage)

-----------------------------------------------------------------------------
(* The documents and calls that the weaver is run on. *)

NewLoader ==
  [positionIds |-> EmptyMap, normalIds |-> EmptyMap, texcoordIds |-> EmptyMap,
   materialIds |-> EmptyMap, positionDuplicateMap |-> EmptyMap,
   normalDuplicateMap |-> EmptyMap, texcoordDuplicateMap |-> EmptyMap,
   materialMap |-> EmptyMap, currentNodeName |-> << >>, meter |-> 1,
   allocated |-> 0, errors |-> << >>]

Element(tag, id) == [tag |-> << tag >>, id |-> << id >>, sid |-> NoAttr]

Source(id, text) ==
  [tag |-> << "source" >>, id |-> << id >>, sid |-> NoAttr,
   float_array |-> [text |-> text, count |-> Len(text)]]

TexSource(id, text, stride) ==
  [tag |-> << "source" >>, id |-> << id >>, sid |-> NoAttr,
   float_array |-> [text |-> text, count |-> Len(text)],
   accessor |-> [stride |-> stride, count |-> Len(text) \div stride]]

Root ==
  [tag |-> << "COLLADA" >>, id |-> NoAttr, sid |-> NoAttr,
   version |-> << "1.4.1" >>]

Input(semantic, source, offset) ==
  [semantic |-> semantic, source |-> << "#", source >>, offset |-> offset]

\* the <input> children that <vertices> may have
VerticesInputLists ==
  { << Input("POSITION", "pos", 0) >>,
    << Input("POSITION", "pos", 0), Input("NORMAL", "vnorm", 0) >>,
    << Input("NORMAL", "vnorm", 0), Input("POSITION", "pos", 0) >> }

\* The library of a document: two values per source, all different or the
\* second a repeat of the first (for the normals: after Normalize).
Library(repeats, verticesInputs) ==
  << Root,
     Source("pos", IF repeats THEN << 1, 0, 0, 1, 0, 0 >>
                              ELSE << 1, 0, 0, 0, 1, 0 >>),
     Source("vnorm", IF repeats THEN << 0, 1, 0, 0, 3, 0 >>
                                ELSE << 0, 1, 0, 0, -1, 0 >>),
     Source("norm", IF repeats THEN << 0, 0, 1, 0, 0, 2 >>
                               ELSE << 0, 0, 1, 1, 0, 0 >>),
     TexSource("uv", IF repeats THEN << 0, 0, 0, 0 >> ELSE << 0, 0, 1, 0 >>, 2),
     Put(Element("vertices", "vtx"), "input", verticesInputs),
     Put(Element("material", "mat"), "instance_effect", << "#", "fx" >>) >>

\* the indices a <p> token may hold: every source has two values
Tokens == 0..1

\* the <input> children of a <triangles> or <polylist>
InputLists ==
  { << Input("VERTEX", "vtx", 0) >>,
    << Input("VERTEX", "vtx", 0), Input("NORMAL", "norm", 1) >>,
    << Input("NORMAL", "norm", 0), Input("VERTEX", "vtx", 1) >>,
    << Input("VERTEX", "vtx", 0), Input("NORMAL", "vnorm", 1) >>,
    << Input("VERTEX", "vtx", 0), Input("NORMAL", "norm", 0) >>,
    << Input("VERTEX", "vtx", 0), Input("TEXCOORD", "uv", 1) >>,
    << Input("VERTEX", "vtx", 0), Input("NORMAL", "norm", 1),
       Input("TEXCOORD", "uv", 2) >>,
    << Input("VERTEX", "vtx", 0), Input("TEXCOORD", "uv", 1),
       Input("TEXCOORD", "uv", 2) >>,
    << Input("VERTEX", "vtx", 0), Input("COLOR", "col", 1) >>,
    << Input("VERTEX", "vtx", 0), Input("COLOR", "col", 1),
       Input("TANGENT", "tan", 2) >> }

\* W: the number of distinct offsets of an input list
Width(inputs) == Cardinality({inputs[i].offset : i \in 1..Len(inputs)})

Streams(n) == [1..n -> Tokens]

RECURSIVE Sum(_)
Sum(s) == IF s = << >> THEN 0 ELSE Head(s) + Sum(Tail(s))

\* the <vcount> of a <polylist>: one or two polygons of up to four corners
VCounts == [1..1 -> 2..4] \cup [1..2 -> 2..4]

\* the optional material attribute of a primitive
WithMaterial(xml) ==
  IF Len(xml.input) = 1 THEN {xml, Put(xml, "material", << "mat" >>)} ELSE {xml}

\* the count attribute of a <triangles>: a number, or text that is none
Counts ==
  { [number |-> TRUE, value |-> 0], [number |-> TRUE, value |-> 2],
    [number |-> FALSE, value |-> 0] }

\* <triangles> elements without <p> text: no <p>, or an empty one, with and
\* without a count and a material attribute
WithoutP ==
  LET bare == [kind |-> "triangles", input |-> << Input("VERTEX", "vtx", 0) >>]
      counted == {bare} \cup {Put(bare, "count", c) : c \in Counts}
  IN UNION { WithMaterial(xml) \cup WithMaterial(Put(xml, "p", << >>)) :
             xml \in counted }

TrianglesElements ==
  WithoutP \cup
  UNION { WithMaterial([kind |-> "triangles", input |-> il, p |-> p]) :
          << il, p >> \in
            UNION { {il} \X Streams(3 * Width(il) * t) :
                    << il, t >> \in {x \in InputLists \X (1..MaxTokens) :
                                       3 * Width(x[1]) * x[2] <= MaxTokens} } }

PolylistElements ==
  UNION { WithMaterial([kind |-> "polylist", input |-> x[1], vcount |-> x[2],
                        p |-> x[3]]) :
      x \in UNION { {il} \X {vc} \X Streams(Width(il) * Sum(vc)) :
                    << il, vc >> \in {y \in InputLists \X VCounts :
                                        Width(y[1]) * Sum(y[2]) <= MaxTokens} } }

LinesElements ==
  { [kind |-> "lines", input |-> << Input("VERTEX", "vtx", 0) >>, p |-> p] :
      p \in UNION { Streams(n) : n \in 1..MaxTokens } }

\* the node transform a primitive is woven under
WeaveTransform == [s |-> 2, r |-> 0, t |-> << 1, 0, 0 >>]

-----------------------------------------------------------------------------
(* SpecWeave: one call of LoadTriangles, LoadPolylist or LoadLines. *)

Running ==
  [loader |-> loader, frame |-> frame, subMesh |-> subMesh, mesh |-> mesh,
   pc |-> pc]

Become(rs) ==
  /\ loader' = rs.loader
  /\ frame' = rs.frame
  /\ subMesh' = rs.subMesh
  /\ mesh' = rs.mesh
  /\ pc' = rs.pc

InitWeave ==
  /\ \E repeats \in BOOLEAN, vi \in VerticesInputLists :
       doc = [elems |-> Library(repeats, vi)]
  /\ \E xml \in TrianglesElements \cup PolylistElements \cup LinesElements :
       call = [xml |-> xml, transform |-> WeaveTransform]
  /\ loader = NewLoader
  /\ frame = NewFrame("none", Identity)
  /\ subMesh = NewSubMesh(<< >>, "none")
  /\ mesh = NewMesh
  /\ pc = "call"

LoadTrianglesBegin ==
  /\ pc = "call" /\ call.xml.kind = "triangles"
  /\ Become(TrianglesBegin(Running, call.xml, call.transform))
  /\ UNCHANGED << doc, call >>

LoadTrianglesInput ==
  /\ pc = "inputs" /\ frame.kind = "triangles"
  /\ frame.inputXml <= Len(call.xml.input)
  /\ Become(TrianglesReadInput(Running, call.xml))
  /\ UNCHANGED << doc, call >>

LoadTrianglesP ==
  /\ pc = "inputs" /\ frame.kind = "triangles"
  /\ frame.inputXml > Len(call.xml.input)
  /\ Become(TrianglesReadP(Running, call.xml))
  /\ UNCHANGED << doc, call >>

LoadTrianglesCorner ==
  /\ pc = "corners" /\ frame.kind = "triangles"
  /\ frame.j < Len(call.xml.p)
  /\ \E garbage \in Garbage(frame, call.xml.p, frame.j, frame.offsetSize) :
       Become(TrianglesLoop(Running, call.xml, garbage))
  /\ UNCHANGED << doc, call >>

LoadTrianglesEnd ==
  /\ pc = "corners" /\ frame.kind = "triangles"
  /\ frame.j >= Len(call.xml.p)
  /\ Become(PrimitiveEnd(Running))
  /\ UNCHANGED << doc, call >>

LoadPolylistBegin ==
  /\ pc = "call" /\ call.xml.kind = "polylist"
  /\ Become(PolylistBegin(Running, call.xml, call.transform))
  /\ UNCHANGED << doc, call >>

LoadPolylistInput ==
  /\ pc = "inputs" /\ frame.kind = "polylist"
  /\ frame.inputXml <= Len(call.xml.input)
  /\ Become(PolylistReadInput(Running, call.xml))
  /\ UNCHANGED << doc, call >>

LoadPolylistP ==
  /\ pc = "inputs" /\ frame.kind = "polylist"
  /\ frame.inputXml > Len(call.xml.input)
  /\ Become(PolylistReadP(Running, call.xml))
  /\ UNCHANGED << doc, call >>

LoadPolylistCorner ==
  /\ pc = "corners" /\ frame.kind = "polylist"
  /\ frame.l < Len(call.xml.vcount)
  /\ \E garbage \in Garbage(frame, call.xml.p,
                          frame.strs_iter
                            + TriangleIndex(frame.j, frame.k, InputsSize(frame)),
                          InputsSize(frame)) :
       Become(PolylistLoop(Running, call.xml, garbage))
  /\ UNCHANGED << doc, call >>

LoadPolylistEnd ==
  /\ pc = "corners" /\ frame.kind = "polylist"
  /\ frame.l >= Len(call.xml.vcount)
  /\ Become(PrimitiveEnd(Running))
  /\ UNCHANGED << doc, call >>

LoadLinesBegin ==
  /\ pc = "call" /\ call.xml.kind = "lines"
  /\ Become(LinesBegin(Running, call.xml, call.transform))
  /\ UNCHANGED << doc, call >>

LoadLinesPair ==
  /\ pc = "corners" /\ frame.kind = "lines"
  /\ frame.j + 2 <= Len(call.xml.p)
  /\ Become(LinesLoop(Running, call.xml))
  /\ UNCHANGED << doc, call >>

LoadLinesEnd ==
  /\ pc = "corners" /\ frame.kind = "lines"
  /\ frame.j + 2 > Len(call.xml.p)
  /\ Become(PrimitiveEnd(Running))
  /\ UNCHANGED << doc, call >>

NextWeave ==
  \/ LoadTrianglesBegin \/ LoadTrianglesInput \/ LoadTrianglesP
  \/ LoadTrianglesCorner \/ LoadTrianglesEnd
  \/ LoadPolylistBegin \/ LoadPolylistInput \/ LoadPolylistP
  \/ LoadPolylistCorner \/ LoadPolylistEnd
  \/ LoadLinesBegin \/ LoadLinesPair \/ LoadLinesEnd

SpecWeave == InitWeave /\ [][NextWeave]_vars

-----------------------------------------------------------------------------
(* Properties of the weaver, checked under SpecWeave. *)

Woven == frame.kind \in {"triangles", "polylist"}

LastIndex == subMesh.indices[Len(subMesh.indices)]

\* the corner just processed: its position, normal and texcoord indices
\* after remapping through the duplicate maps
CornerP == Remap(frame.positionDupMap, frame.values[frame.inputs[VERTEX]])

CornerN ==
  IF frame.hasNormals
  THEN Remap(frame.normalDupMap, frame.values[frame.inputs[NORMAL]])
  ELSE CornerP

CornerT == Remap(frame.texDupMap, frame.values[frame.inputs[TEXCOORD]])

\* the primitive's inputs have one offset each, 0 .. W-1: the stride of the
\* code is the tuple width W
OneOffsetEach(inputs) ==
  /\ Width(inputs) = Len(inputs)
  /\ \A i \in 1..Len(inputs) : inputs[i].offset < Len(inputs)

\* the remapped tuple of corner c (0-based) of a <triangles> stream
StreamTuple(c) ==
  LET base == c * Width(call.xml.input)
  IN << Remap(frame.positionDupMap, At(call.xml.p, base + frame.inputs[VERTEX])),
        IF frame.hasNormals
        THEN Remap(frame.normalDupMap,
                   At(call.xml.p, base + frame.inputs[NORMAL]))
        ELSE 0,
        IF frame.hasTexcoords
        THEN Remap(frame.texDupMap,
                   At(call.xml.p, base + frame.inputs[TEXCOORD]))
        ELSE 0 >>

\* max(n - 2, 0) summed over the polygons
RECURSIVE FanTriangles(_)
FanTriangles(vcounts) ==
  IF vcounts = << >> THEN 0
  ELSE (IF Head(vcounts) > 2 THEN Head(vcounts) - 2 ELSE 0)
       + FanTriangles(Tail(vcounts))

\* C1: in every sub-mesh built by LoadTriangles, LoadPolylist or LoadLines,
\* after any prefix of the <p> stream, every value of the index stream is
\* smaller than the sub-mesh's vertex count.
C1_IndicesBelowVertexCount ==
  /\ \A i \in 1..Len(subMesh.indices) :
       subMesh.indices[i] < VertexCount(subMesh)
  /\ \A m \in 1..Len(mesh.subMeshes) :
       \A i \in 1..Len(mesh.subMeshes[m].indices) :
         mesh.subMeshes[m].indices[i] < VertexCount(mesh.subMeshes[m])

\* a sub-mesh was added whose stream reuses an output vertex
C1_ReusedIndexReached ==
  /\ pc = "return"
  /\ Len(mesh.subMeshes) = 1
  /\ Len(mesh.subMeshes[1].indices) >= 3
  /\ Len(mesh.subMeshes[1].indices) > VertexCount(mesh.subMeshes[1])

\* C2: the index appended for a corner refers to an output vertex whose
\* position is verts[p], whose normal (if the sub-mesh has normals) is
\* norms[n] and whose texcoord (if it has texcoords) is texcoords[t], p, n, t
\* being the corner's indices after remapping through the duplicate maps.
C2_IndexRefersToCornerTuple ==
  pc = "corners" /\ Woven /\ subMesh.indices # << >> =>
    /\ At(subMesh.vertices, LastIndex) = At(frame.verts, CornerP)
    /\ subMesh.normals # << >> =>
         /\ LastIndex < Len(subMesh.normals)
         /\ At(subMesh.normals, LastIndex) = At(frame.norms, CornerN)
    /\ subMesh.texcoords # << >> =>
         /\ LastIndex < Len(subMesh.texcoords)
         /\ At(subMesh.texcoords, LastIndex) = At(frame.texcoords, CornerT)

\* C2 away from C5: with one normal per output vertex the index does refer
\* to the corner's tuple
C2_HoldsWithOneNormalPerVertex ==
  ~(frame.hasNormals /\ frame.combinedVertNorms) => C2_IndexRefersToCornerTuple

\* C3: the number of output vertices equals the number of distinct remapped
\* (position, normal, texcoord) tuples among the corners processed, whatever
\* corners lie between two equal ones.
C3_OneVertexPerDistinctTuple ==
  pc = "corners" /\ frame.kind = "triangles"
    /\ OneOffsetEach(call.xml.input) =>
    VertexCount(subMesh) =
      Cardinality({StreamTuple(c) : c \in 0..(frame.j \div frame.offsetSize) - 1})

\* C4: when LoadTriangles / LoadPolylist has finished on a <p> of whole
\* corners, the index count is 3 x the number of triangles (for <polylist>,
\* 3 x the sum of max(n_l - 2, 0)); after LoadLines it is 2 x the number of
\* pairs.
C4_IndexCountByPrimitive ==
  pc = "return" /\ Len(mesh.subMeshes) = 1 =>
    LET n == Len(mesh.subMeshes[1].indices)
        xml == call.xml
    IN /\ xml.kind = "triangles" =>
            n = 3 * (Len(xml.p) \div (3 * Width(xml.input)))
       /\ xml.kind = "polylist" => n = 3 * FanTriangles(xml.vcount)
       /\ xml.kind = "lines" => n = 2 * (Len(xml.p) \div 2)

\* C4 away from C25: with one offset per input the counts are as stated
C4_HoldsWithOneOffsetEach ==
  OneOffsetEach(call.xml.input) => C4_IndexCountByPrimitive

\* C5: in every woven sub-mesh the normals, if any, are as many as the
\* vertices and so are the texcoords, for every set and order of VERTEX /
\* NORMAL / TEXCOORD inputs, a <vertices> with a NORMAL input of its own
\* beside a NORMAL input of the primitive included.
C5_OneNormalAndTexcoordPerVertex ==
  Woven /\ pc \in {"corners", "return"} =>
    /\ subMesh.normals # << >> => Len(subMesh.normals) = VertexCount(subMesh)
    /\ subMesh.texcoords # << >> =>
         Len(subMesh.texcoords) = VertexCount(subMesh)

-----------------------------------------------------------------------------
(* SpecSource: one call of LoadPositions, LoadNormals or LoadTexCoords on a *)
(* source of its own, the caller's buffers empty or holding what an earlier *)
(* input of the primitive left in them.                                     *)

RECURSIVE Flatten(_)
\* the text of a float_array holding the tuples of vs
Flatten(vs) == IF vs = << >> THEN << >> ELSE Head(vs) \o Flatten(Tail(vs))

\* (2,0,0) is (1,0,0) once normalized
Triples == {<< 1, 0, 0 >>, << 2, 0, 0 >>, << 0, 1, 0 >>}

Pairs == {<< 0, 0 >>, << 1, 0 >>}

TupleLists(S) == UNION {[1..n -> S] : n \in 1..MaxValues}

\* the caller's buffers on entry: empty, or one value of an earlier input
Entries(fn) ==
  { [values |-> << >>, duplicates |-> EmptyMap],
    [values |-> << IF fn = "LoadTexCoords" THEN << 1, 1 >> ELSE << 0, 0, 1 >> >>,
     duplicates |-> EmptyMap] }

SourceCalls ==
  {[fn |-> f, id |-> << "#", "xyz" >>, transform |-> T, entry |-> e] :
     f \in {"LoadPositions", "LoadNormals"}, T \in {Identity, WeaveTransform},
     e \in Entries("LoadPositions")}
  \cup {[fn |-> "LoadTexCoords", id |-> << "#", "uv" >>, transform |-> Identity,
         entry |-> e] : e \in Entries("LoadTexCoords")}

InitSource ==
  /\ call \in SourceCalls
  /\ \E xyz \in TupleLists(Triples), uv \in TupleLists(Pairs) :
       /\ call.fn = "LoadTexCoords" => xyz = << << 1, 0, 0 >> >>
       /\ call.fn # "LoadTexCoords" => uv = << << 0, 0 >> >>
       /\ doc = [elems |-> << Root, Source("xyz", Flatten(xyz)),
                              TexSource("uv", Flatten(uv), 2) >>]
  /\ loader = NewLoader
  /\ frame = call.entry
  /\ subMesh = NewSubMesh(<< >>, "none")
  /\ mesh = NewMesh
  /\ pc = "call"

\* the caller's buffers and the loader after the call
Returned(r) ==
  /\ loader' = r.loader
  /\ frame' = [values |-> r.values, duplicates |-> r.duplicates]
  /\ pc' = "return"
  /\ UNCHANGED << doc, call, subMesh, mesh >>

CallLoadPositions ==
  /\ pc = "call" /\ call.fn = "LoadPositions"
  /\ Returned(LoadPositions(loader, call.id, call.transform,
                            frame.values, frame.duplicates))

CallLoadNormals ==
  /\ pc = "call" /\ call.fn = "LoadNormals"
  /\ Returned(LoadNormals(loader, call.id, call.transform,
                          frame.values, frame.duplicates))

CallLoadTexCoords ==
  /\ pc = "call" /\ call.fn = "LoadTexCoords"
  /\ Returned(LoadTexCoords(loader, call.id, frame.values, frame.duplicates))

NextSource == CallLoadPositions \/ CallLoadNormals \/ CallLoadTexCoords

SpecSource == InitSource /\ [][NextSource]_vars

\* the indices of values that repeat the value of a smaller index
Repeats(values) ==
  {i \in 0..Len(values) - 1 : \E j \in 0..i - 1 : At(values, j) = At(values, i)}

\* the smallest index holding the value of index i
FirstOf(values, i) ==
  CHOOSE j \in 0..i : /\ At(values, j) = At(values, i)
                      /\ \A k \in 0..j - 1 : At(values, k) # At(values, i)

\* every other value repeats its predecessor, the pairs differing
EveryOtherRepeats(values) ==
  /\ Len(values) % 2 = 0
  /\ \A i \in 0..Len(values) - 1 :
       IF i % 2 = 1 THEN At(values, i) = At(values, i - 1)
       ELSE i \notin Repeats(values)

\* C9: for a source parsed into empty buffers the keys of the duplicate map
\* are exactly the indices whose value equals the value at a smaller index,
\* each mapped to the smallest index holding that value: dup[i] < i,
\* values[i] = values[dup[i]] and dup[i] is not a key.  Without repeats the
\* map is empty; N values of which every other one repeats its predecessor
\* give a map of size N/2.
C9_DuplicatesMapToFirstOccurrence ==
  pc = "return" /\ call.entry.values = << >> =>
    LET values == frame.values
        dup == frame.duplicates
    IN /\ DOMAIN dup = Repeats(values)
       /\ \A i \in DOMAIN dup :
            /\ dup[i] = FirstOf(values, i)
            /\ dup[i] < i
            /\ At(values, i) = At(values, dup[i])
            /\ dup[i] \notin DOMAIN dup
       /\ Repeats(values) = {} => dup = EmptyMap
       /\ EveryOtherRepeats(values) =>
            Cardinality(DOMAIN dup) * 2 = Len(values)

\* a source was parsed in which a value repeats one that is not its
\* predecessor, and one where every other value repeats its predecessor
C9_LaterRepeatParsed ==
  /\ pc = "return"
  /\ call.entry.values = << >>
  /\ Len(frame.values) = MaxValues
  /\ \E i \in DOMAIN frame.duplicates : frame.duplicates[i] + 1 < i

C9_EveryOtherRepeatsParsed ==
  /\ pc = "return" /\ call.entry.values = << >>
  /\ Len(frame.values) = 4 /\ EveryOtherRepeats(frame.values)

-----------------------------------------------------------------------------
(* SpecSkin: one call of LoadController. *)

Geometry(id, meshXml) == Put(Element("geometry", id), "mesh", meshXml)

NameSource(id, names) ==
  Put(Element("source", id), "Name_array", [text |-> names])

\* a <node> with a sid, of type JOINT, translated by t, with child nodes
Joint(id, sid, t, children) ==
  [tag |-> << "node" >>, id |-> << id >>, sid |-> << sid >>, type |-> "JOINT",
   translate |-> [value |-> t, sid |-> << "translate" >>],
   node |-> children]

\* the element of a transformation child of the given kind
TransformChild(kind) ==
  IF kind = "translate"
  THEN [value |-> << 1, 0, 0 >>, sid |-> << "translate" >>]
  ELSE IF kind = "rotate"
  THEN << [value |-> [axis |-> << 0, 0, 1 >>, angle |-> 90],
           sid |-> << "rotateZ" >>] >>
  ELSE IF kind = "scale" THEN [value |-> 2, sid |-> << "scale" >>]
  ELSE [value |-> [s |-> 1, r |-> 1, t |-> << 0, 2, 0 >>],
        sid |-> << "matrix" >>]

RECURSIVE WithTransforms(_, _)
\* element e with the transformation children of the kinds given
WithTransforms(e, kinds) ==
  IF kinds = << >> THEN e
  ELSE WithTransforms(Put(e, Head(kinds), TransformChild(Head(kinds))),
                      Tail(kinds))

\* the second joint of the skeleton of a skin: translated, or with the
\* transformation children of the kinds given, its <translate> without a sid
\* when bare
Arm(kinds, bare) ==
  IF kinds = << >> THEN Joint("arm", "j1", << 0, 1, 0 >>, << >>)
  ELSE LET joint == WithTransforms(
                      [tag |-> << "node" >>, id |-> << "arm" >>,
                       sid |-> << "j1" >>, type |-> "JOINT", node |-> << >>,
                       order |-> kinds], kinds)
       IN IF bare
          THEN [joint EXCEPT !.translate = [value |-> @.value, sid |-> NoAttr]]
          ELSE joint

\* the second joints that the skeleton of a skin is loaded with
Arms ==
  {Arm(<< >>, FALSE), Arm(<< "translate", "rotate" >>, TRUE),
   Arm(<< "rotate", "translate" >>, FALSE), Arm(<< "matrix" >>, FALSE),
   Arm(<< "matrix", "scale" >>, FALSE), Arm(<< "scale" >>, FALSE),
   Arm(<< "translate", "rotate", "scale" >>, FALSE)}

\* the <input> children <vertex_weights> may have
WeightInputLists ==
  { << Input("JOINT", "jn", 0), Input("WEIGHT", "w", 1) >>,
    << Input("WEIGHT", "w", 0), Input("JOINT", "jn", 1) >>,
    << Input("JOINT", "jn", 0), Input("EXTRA", "x", 1), Input("WEIGHT", "w", 2) >>,
    << Input("EXTRA", "x", 0), Input("JOINT", "jn", 1), Input("WEIGHT", "w", 2) >> }

\* the width of the records the <v> of a skin is written with
DeclaredWidth(inputs) ==
  InputOffset(inputs, "JOINT") + InputOffset(inputs, "WEIGHT") + 1

\* <vcount>: one or two vertices of up to two attachments
SkinVCounts == [1..1 -> 0..2] \cup [1..2 -> 0..2]

\* the skin of scenario S6
S6Inputs == << Input("JOINT", "jn", 0), Input("WEIGHT", "w", 1) >>

S6VCount == << 2, 2 >>

S6V == << 0, 0, 1, 1, 0, 2, 1, 3 >>

SkinTriangles ==
  [kind |-> "triangles", input |-> << Input("VERTEX", "vtx", 0) >>,
   p |-> << 0, 1, 0 >>]

BindShape == [s |-> 1, r |-> 0, t |-> << 0, 0, 1 >>]

\* the document of a skin: the library, the skinned geometry, the sources of
\* the skin, the controller and the two joints of the skeleton
SkinDoc(inputs, vcount, v, arm) ==
  LET library == Library(FALSE, << Input("POSITION", "pos", 0) >>)
      root == Len(library) + 6
  IN [elems |-> library \o
       << Geometry("geo", [triangles |-> << SkinTriangles >>,
                           polylist |-> << >>, lines |-> << >>]),
          NameSource("jn", << "j0", "j1" >>),
          Source("ibm", << [s |-> 1, r |-> 0, t |-> << 0, 0, 0 >>],
                           [s |-> 1, r |-> 0, t |-> << 0, -1, 0 >>] >>),
          Source("w", << 10, 20, 30, 40 >>),
          Put(Element("controller", "ctrl"), "skin",
              [source |-> << "#", "geo" >>,
               bind_shape_matrix |-> BindShape,
               joints |-> [input |-> << Input("JOINT", "jn", 0),
                                        Input("INV_BIND_MATRIX", "ibm", 0) >>],
               vertex_weights |-> [input |-> inputs, vcount |-> vcount,
                                   v |-> v]]),
          Joint("root", "j0", << 0, 0, 0 >>, << root + 1 >>),
          arm >>,
      contrXml |-> root - 1,
      skelXml |-> root]

InitSkin ==
  /\ \E inputs \in WeightInputLists, vcount \in SkinVCounts :
       \E v \in Streams(DeclaredWidth(inputs) * Sum(vcount))
                  \cup {x \in {S6V} : inputs = S6Inputs /\ vcount = S6VCount} :
         /\ Len(v) <= MaxTokens
         /\ \E arm \in Arms :
              /\ arm # Arm(<< >>, FALSE) => v = S6V
              /\ doc = SkinDoc(inputs, vcount, v, arm)
  /\ call = [contrXml |-> doc.contrXml, skelXml |-> doc.skelXml,
             transform |-> WeaveTransform]
  /\ loader = NewLoader
  /\ frame = NewFrame("none", Identity)
  /\ subMesh = NewSubMesh(<< >>, "none")
  /\ mesh = NewMesh
  /\ pc = "call"

LoadControllerBegin ==
  /\ pc = "call"
  /\ Become(ControllerBegin(Running, call.contrXml, call.skelXml,
                            call.transform))
  /\ UNCHANGED << doc, call >>

LoadControllerWeight ==
  /\ pc = "weights"
  /\ frame.i < Len(frame.vCount)
  /\ Become(ControllerWeight(Running))
  /\ UNCHANGED << doc, call >>

LoadControllerEnd ==
  /\ pc = "weights"
  /\ frame.i >= Len(frame.vCount)
  /\ \E garbage \in SkinGarbage : Become(ControllerEnd(Running, garbage))
  /\ UNCHANGED << doc, call >>

NextSkin == LoadControllerBegin \/ LoadControllerWeight \/ LoadControllerEnd

SpecSkin == InitSkin /\ [][NextSkin]_vars

\* the <vertex_weights> of the controller loaded, and what its inputs name
VertexWeightsXml == doc.elems[call.contrXml].skin.vertex_weights

JointNames ==
  Child(ElementId(<< "source" >>,
                  InputSource(doc.elems[call.contrXml].skin.joints.input,
                              "JOINT")), "Name_array").text

WeightValues ==
  Child(ElementId(<< "source" >>,
                  InputSource(VertexWeightsXml.input, "WEIGHT")),
        "float_array").text

\* the pair of record r of <v>, counting from 0 across all vertices
RecordPair(r) ==
  LET j_off == InputOffset(VertexWeightsXml.input, "JOINT")
      w_off == InputOffset(VertexWeightsXml.input, "WEIGHT")
      w == j_off + w_off + 1
  IN << At(JointNames, At(VertexWeightsXml.v, r * w + j_off)),
        At(WeightValues, At(VertexWeightsXml.v, r * w + w_off)) >>

\* the number of records of the vertices before vertex i (0-based)
RecordsBefore(vcount, i) == Sum(SubSeq(vcount, 1, i))

\* C10: the skeleton gets one attachment list per <vcount> entry; list i
\* holds vcount[i] (joint, weight) pairs in stream order, the pair of the
\* r-th record overall being (joints[v[r*w + j_off]], weights[v[r*w + w_off]])
\* with w = j_off + w_off + 1; scenario S6 gives vertex 0 ->
\* (joints[0], weights[0]), (joints[1], weights[1]) and vertex 1 ->
\* (joints[0], weights[2]), (joints[1], weights[3]).
C10_AttachmentsFollowRecords ==
  pc \in {"weights", "return"} =>
    LET lists == MeshSkeleton(mesh).vertNodeWeights
        vcount == VertexWeightsXml.vcount
    IN /\ Len(lists) = Len(vcount)
       /\ \A i \in 1..Len(lists) :
            /\ Len(lists[i]) <= vcount[i]
            /\ pc = "return" => Len(lists[i]) = vcount[i]
            /\ \A k \in 1..Len(lists[i]) :
                 lists[i][k] = RecordPair(RecordsBefore(vcount, i - 1) + k - 1)
       /\ pc = "return" /\ VertexWeightsXml.v = S6V =>
            lists = << << << "j0", 10 >>, << "j1", 20 >> >>,
                       << << "j0", 30 >>, << "j1", 40 >> >> >>

\* the skin of S6 was loaded, its second vertex attached to weights 2 and 3
C10_S6Loaded ==
  /\ pc = "return"
  /\ VertexWeightsXml.v = S6V
  /\ MeshSkeleton(mesh).vertNodeWeights[2] =
       << << "j0", 30 >>, << "j1", 40 >> >>

-----------------------------------------------------------------------------
(* Load, LoadScene and LoadNode.  The recursion of LoadNode is a stack of  *)
(* activations [elem, transform, child, geom, contr, returning]: the node,  *)
(* its composed transform, the next <node> child, the next                  *)
(* <instance_geometry> and the next <instance_controller> to visit, and     *)
(* whether the call returns once the call it made for <instance_node> has.  *)
(* The <instance_material> elements under an instance are its field         *)
(* bind_material, a list of [symbol, target].                               *)

\* tinyxml2::XML_NO_ERROR, the value LoadFile returns for a file it has read
XML_NO_ERROR == 0

\* xmlDoc.LoadFile(_filename.c_str()): a file that cannot be read leaves the
\* document without elements and returns some other code
LoadFile == IF doc.elems = << >> THEN XML_NO_ERROR + 1 ELSE XML_NO_ERROR

\* !e of an XMLError e, as the int the bool is compared as
Not(e) == IF e = 0 THEN 1 ELSE 0

\* if (!xmlDoc.LoadFile(...) != tinyxml2::XML_NO_ERROR) ignerr << ...
ReadFile(ld) ==
  IF Not(LoadFile) # XML_NO_ERROR
  THEN Err(ld, "Unable to load collada file") ELSE ld

\* xmlDoc.FirstChildElement("COLLADA"), 0 for NULL
ColladaXml ==
  IF doc.elems # << >> /\ doc.elems[1].tag = << "COLLADA" >> THEN 1 ELSE 0

\* if (!colladaXml) ignerr << "Missing COLLADA tag\n";
CheckRoot(ld) == IF ColladaXml = 0 THEN Err(ld, "Missing COLLADA tag") ELSE ld

\* a Load that clears the source caches and keeps the material cache
ClearCachesButMaterials(ld) ==
  [ld EXCEPT
     !.positionIds = EmptyMap, !.normalIds = EmptyMap,
     !.texcoordIds = EmptyMap,
     !.positionDuplicateMap = EmptyMap, !.normalDuplicateMap = EmptyMap,
     !.texcoordDuplicateMap = EmptyMap]

\* the seven clear() calls that open Load
ClearCaches(ld) ==
  [ld EXCEPT
     !.positionIds = EmptyMap, !.normalIds = EmptyMap,
     !.texcoordIds = EmptyMap, !.materialIds = EmptyMap,
     !.positionDuplicateMap = EmptyMap, !.normalDuplicateMap = EmptyMap,
     !.texcoordDuplicateMap = EmptyMap]

\* a Load that keeps the scale of the document loaded before
ResetScaleKept(ld) == ld

\* this->dataPtr->meter = 1.0
ResetScale(ld) == [ld EXCEPT !.meter = 1]

\* the version test, on a root that has the attribute
CheckVersion(ld) ==
  IF Child(1, "version") \notin {<< "1.4.0" >>, << "1.4.1" >>}
  THEN Err(ld, "Invalid collada file. Must be version 1.4.0 or 1.4.1") ELSE ld

\* if (assetXml) { if (unitXml && unitXml->Attribute("meter")) meter = ... }
ReadUnit(ld) ==
  IF /\ HasChild(1, "asset")
     /\ "unit" \in DOMAIN Child(1, "asset")
     /\ "meter" \in DOMAIN Child(1, "asset").unit
  THEN [ld EXCEPT !.meter = Child(1, "asset").unit.meter] ELSE ld

\* Load from its first line to the test of colladaXml
LoadBegin(ld) == CheckRoot(ReadFile(ResetScale(ClearCaches(ld))))

\* Load dereferences colladaXml for the version whether or not it is NULL,
\* and builds a std::string from the attribute whether or not there is one
RootFaults == ColladaXml = 0 \/ ~HasChild(1, "version")

\* LoadScene dereferences the <scene> child of the root and its
\* <instance_visual_scene> child whether or not they are NULL
SceneFaults ==
  \/ ~HasChild(1, "scene")
  \/ "instance_visual_scene" \notin DOMAIN Child(1, "scene")

\* ElementId("visual_scene", sceneURL), 0 for NULL
VisualSceneXml ==
  ElementId(<< "visual_scene" >>, Child(1, "scene").instance_visual_scene.url)

\* the <node> children of the <visual_scene> that <scene> instances, none
\* when the scene is not found
LoadScene ==
  IF VisualSceneXml = 0 \/ ~HasChild(VisualSceneXml, "node") THEN << >>
  ELSE Child(VisualSceneXml, "node")

\* Vector3d * double
ScaleVector(v, factor) ==
  IF v = PastEnd THEN PastEnd ELSE [c \in 1..3 |-> v[c] * factor]

\* SubMesh::Scale
ScaleSubMesh(sm, factor) ==
  [sm EXCEPT !.vertices = [j \in 1..Len(sm.vertices) |->
                              ScaleVector(sm.vertices[j], factor)]]

\* Mesh::Scale
Scale(msh, factor) ==
  [msh EXCEPT !.subMeshes = [k \in 1..Len(msh.subMeshes) |->
                               ScaleSubMesh(msh.subMeshes[k], factor)]]

\* if (_elem->Attribute("name")) currentNodeName = _elem->Attribute("name")
NameNode(ld, elem) ==
  IF HasChild(elem, "name")
  THEN [ld EXCEPT !.currentNodeName = Child(elem, "name")] ELSE ld

\* the locals of LoadNode after transform = _transform * transform
NodeActivation(elem, parentTransform) ==
  [elem |-> elem,
   transform |-> MatMul(parentTransform, LoadNodeTransform(elem)),
   child |-> 1, geom |-> 1, contr |-> 1, returning |-> FALSE]

NodeChildren(elem) ==
  IF HasChild(elem, "node") THEN Child(elem, "node") ELSE << >>

InstanceGeometries(elem) ==
  IF HasChild(elem, "instance_geometry") THEN Child(elem, "instance_geometry")
  ELSE << >>

InstanceControllers(elem) ==
  IF HasChild(elem, "instance_controller")
  THEN Child(elem, "instance_controller") ELSE << >>

RECURSIVE BindMaterials(_, _, _)
\* materialMap[symbol] = target for every <instance_material>, in order
BindMaterials(map, binds, i) ==
  IF i > Len(binds) THEN map
  ELSE BindMaterials(Put(map, binds[i].symbol, binds[i].target), binds, i + 1)

\* an instance loop that adds its bindings to those of the instances before
BindInstanceUncleared(rs, inst) ==
  [rs EXCEPT !.loader.materialMap =
     BindMaterials(rs.loader.materialMap, inst.bind_material, 1)]

\* materialMap.clear() and the bind_material loops
BindInstance(rs, inst) ==
  [rs EXCEPT !.loader.materialMap =
     BindMaterials(EmptyMap, inst.bind_material, 1)]

\* one pass of while (instGeomXml)
LoadInstanceGeometry(rs, inst, transform) ==
  LoadGeometry(BindInstance(rs, inst),
               ElementId(<< "geometry" >>, inst.url), transform, NoGarbage)

\* one pass of while (instContrXml)
LoadInstanceController(rs, inst, transform, garbage) ==
  LoadController(BindInstance(rs, inst),
                 ElementId(<< "controller" >>, inst.url),
                 ElementId(<< "node" >>, inst.skeleton), transform, garbage)

-----------------------------------------------------------------------------
(* The documents Load is run on: the library, two geometries, a skin, the  *)
(* two joints of its skeleton, a library node and a visual scene of one or  *)
(* two nodes.                                                               *)

\* <COLLADA> with <scene> and, when meter is << m >>, <asset><unit meter>
SceneRoot(meter) ==
  LET root == Put(Root, "scene",
                  [instance_visual_scene |-> [url |-> << "#", "vs" >>]])
  IN IF meter = << >> THEN root
     ELSE Put(root, "asset", [unit |-> [meter |-> meter[1]]])

VertexInputs == << Input("VERTEX", "vtx", 0) >>

\* three sub-meshes of 3, 9 and 2 indices
GeometryOne ==
  Geometry("g1",
    [triangles |-> << [kind |-> "triangles", input |-> VertexInputs,
                       p |-> << 0, 1, 0 >>, material |-> << "sym" >>] >>,
     polylist |-> << [kind |-> "polylist", input |-> VertexInputs,
                      vcount |-> << 5 >>, p |-> << 0, 1, 0, 1, 0 >>] >>,
     lines |-> << [kind |-> "lines", input |-> VertexInputs,
                   p |-> << 0, 1 >>] >>])

\* two sub-meshes of 6 and 4 indices; the <triangles> names its material by
\* id, without a symbol and without '#'
GeometryTwo ==
  Geometry("g2",
    [triangles |-> << [kind |-> "triangles", input |-> VertexInputs,
                       p |-> << 0, 1, 1, 1, 0, 0 >>,
                       material |-> << "mat" >>] >>,
     polylist |-> << >>,
     lines |-> << [kind |-> "lines", input |-> VertexInputs,
                   p |-> << 0, 1, 1, 0 >>] >>])

\* a <node> of the scene; name is << >> for a node without the attribute
SceneNode(id, name, translate, children, geometries, controllers) ==
  LET node == [tag |-> << "node" >>, id |-> << id >>, sid |-> NoAttr,
               type |-> "NODE",
               translate |-> [value |-> translate, sid |-> << "translate" >>],
               node |-> children,
               instance_geometry |-> geometries,
               instance_controller |-> controllers]
  IN IF name = << >> THEN node ELSE Put(node, "name", name)

InstanceGeometry(id, binds) ==
  [url |-> << "#", id >>, bind_material |-> binds]

InstanceController(id, skeleton) ==
  [url |-> << "#", id >>, skeleton |-> << "#", skeleton >>,
   bind_material |-> << >>]

BindSym == << [symbol |-> << "sym" >>, target |-> << "#", "mat" >>] >>

\* what every document starts with; skin is the geometry the controller skins
ScenePrefix(meter, skin) ==
  LET library == Library(FALSE, << Input("POSITION", "pos", 0),
                                   Input("NORMAL", "vnorm", 0) >>)
      root == Len(library) + 7
  IN << SceneRoot(meter) >> \o Tail(library) \o
     << GeometryOne, GeometryTwo,
        NameSource("jn", << "j0", "j1" >>),
        Source("ibm", << [s |-> 1, r |-> 0, t |-> << 0, 0, 0 >>],
                         [s |-> 1, r |-> 0, t |-> << 0, -1, 0 >>] >>),
        Source("w", << 10, 20, 30, 40 >>),
        Put(Element("controller", "ctrl"), "skin",
            [source |-> << "#", skin >>,
             bind_shape_matrix |-> BindShape,
             joints |-> [input |-> << Input("JOINT", "jn", 0),
                                      Input("INV_BIND_MATRIX", "ibm", 0) >>],
             vertex_weights |-> [input |-> S6Inputs, vcount |-> S6VCount,
                                 v |-> S6V]]),
        Joint("root", "j0", << 0, 0, 0 >>, << root + 1 >>),
        Joint("arm", "j1", << 0, 1, 0 >>, << >>) >>

VisualScene(nodes) == Put(Element("visual_scene", "vs"), "node", nodes)

\* two top-level nodes
FlatScene(meter, a, b, n1, n2) ==
  LET prefix == ScenePrefix(meter, "g2")
      at == Len(prefix)
  IN prefix \o
     << VisualScene(<< at + 2, at + 3 >>),
        SceneNode("n1", n1, << 1, 0, 0 >>, << >>,
                  << InstanceGeometry(a, BindSym) >>, << >>),
        SceneNode("n2", n2, << 0, 2, 0 >>, << >>,
                  << InstanceGeometry(b, << >>) >>, << >>) >>

\* one top-level node with a child, its own geometry and, when skinned, a
\* controller
NestedScene(meter, a, b, n1, n2, skinned) ==
  LET prefix == ScenePrefix(meter, b)
      at == Len(prefix)
  IN prefix \o
     << VisualScene(<< at + 2 >>),
        SceneNode("n1", n1, << 1, 0, 0 >>, << at + 3 >>,
                  << InstanceGeometry(a, BindSym) >>,
                  IF skinned THEN << InstanceController("ctrl", "root") >>
                  ELSE << >>),
        SceneNode("n2", n2, << 0, 2, 0 >>, << >>,
                  << InstanceGeometry(b, << >>) >>, << >>) >>

\* one top-level node with a child, an <instance_node> and a geometry of its
\* own; target is the url of the <instance_node>
InstancedScene(meter, a, b, n1, n2, target) ==
  LET prefix == ScenePrefix(meter, "g2")
      at == Len(prefix)
  IN prefix \o
     << VisualScene(<< at + 2 >>),
        Put(SceneNode("n1", n1, << 1, 0, 0 >>, << at + 3 >>,
                      << InstanceGeometry(b, << >>) >>, << >>),
            "instance_node", [url |-> << "#", target >>]),
        SceneNode("n2", n2, << 0, 2, 0 >>, << >>,
                  << InstanceGeometry(b, << >>) >>, << >>),
        SceneNode("lib", << >>, << 0, 0, 3 >>, << >>,
                  << InstanceGeometry(a, BindSym) >>, << >>) >>

\* the transformation children a node may have, in their document order: up
\* to one <translate>, <rotate> and <scale> in any order, or a <matrix>
TransformOrders ==
  LET kinds == {"translate", "rotate", "scale"}
  IN {<< a >> : a \in kinds}
     \cup {<< a, b >> : << a, b >> \in {x \in kinds \X kinds : x[1] # x[2]}}
     \cup {<< a, b, c >> : << a, b, c >> \in
             {x \in kinds \X kinds \X kinds :
                x[1] # x[2] /\ x[1] # x[3] /\ x[2] # x[3]}}
     \cup {<< "matrix" >>, << "translate", "matrix" >>}

\* one node "A" with an instance of g1 and the transformation children in
\* the given order
TransformedScene(order) ==
  LET prefix == ScenePrefix(<< >>, "g2")
      at == Len(prefix)
      node == [tag |-> << "node" >>, id |-> << "n1" >>, sid |-> NoAttr,
               type |-> "NODE", name |-> << "A" >>, order |-> order,
               node |-> << >>,
               instance_geometry |-> << InstanceGeometry("g1", << >>) >>,
               instance_controller |-> << >>]
  IN prefix \o << VisualScene(<< at + 2 >>), WithTransforms(node, order) >>

\* a geometry of two primitives: a <triangles> whose VERTEX input names
\* vertices, and a <lines> on the vertices of the library
UnresolvedGeometry(vertices) ==
  Geometry("g3",
    [triangles |-> << [kind |-> "triangles",
                       input |-> << Input("VERTEX", vertices, 0) >>,
                       p |-> << 0, 1, 0 >>] >>,
     polylist |-> << >>,
     lines |-> << [kind |-> "lines", input |-> VertexInputs,
                   p |-> << 0, 1 >>] >>])

\* what a document leaves unresolved
Unresolved == {"geometry", "vertices", "position", "float_array"}

\* Two top-level nodes, the first with an instance that does not resolve:
\* its url names no <geometry>; or its <triangles> names no <vertices>
\* ("novtx"), a <vertices> whose POSITION source is missing ("vtx2"), or one
\* whose POSITION source has a <float_array> of count 3 without text ("vtx3").
UnresolvedScene(kind) ==
  LET prefix == ScenePrefix(<< >>, "g2")
      at == Len(prefix)
  IN prefix \o
     << VisualScene(<< at + 2, at + 3 >>),
        SceneNode("n1", << "A" >>, << 1, 0, 0 >>, << >>,
                  << InstanceGeometry(IF kind = "geometry" THEN "nowhere"
                                      ELSE "g3", << >>) >>, << >>),
        SceneNode("n2", << "B" >>, << 0, 2, 0 >>, << >>,
                  << InstanceGeometry("g2", << >>) >>, << >>),
        UnresolvedGeometry(IF kind = "position" THEN "vtx2"
                           ELSE IF kind = "float_array" THEN "vtx3"
                           ELSE "novtx"),
        Put(Element("vertices", "vtx2"), "input",
            << Input("POSITION", "nopos", 0) >>),
        Put(Element("vertices", "vtx3"), "input",
            << Input("POSITION", "badpos", 0) >>),
        [Source("badpos", << >>) EXCEPT !.float_array.count = 3] >>

\* a file that cannot be read, a file whose root is not <COLLADA>, and
\* documents whose root has no <scene>, whose <scene> names no
\* <visual_scene> of the document, and whose version is not 1.4.0 or 1.4.1
Unreadable == << >>

NoRoot == << Element("html", "page") >>

NoScene ==
  [FlatScene(<< >>, "g1", "g2", << "A" >>, << "B" >>) EXCEPT ![1] = Root]

NoVisualScene ==
  [FlatScene(<< >>, "g1", "g2", << "A" >>, << "B" >>) EXCEPT
     ![1].scene.instance_visual_scene.url = << "#", "nowhere" >>]

OtherVersion ==
  [FlatScene(<< >>, "g1", "g2", << "A" >>, << "B" >>) EXCEPT
     ![1].version = << "1.5.0" >>]

Meters == {<< >>, << 2 >>}

GeometryIds == {"g1", "g2"}

SceneDocs ==
  {Unreadable, NoRoot, NoScene, NoVisualScene, OtherVersion} \cup
  {UnresolvedScene(kind) : kind \in Unresolved} \cup
  {TransformedScene(order) : order \in TransformOrders} \cup
  UNION { { FlatScene(m, a, b, n1, n2),
            NestedScene(m, a, b, n1, n2, FALSE),
            NestedScene(m, a, b, n1, n2, TRUE),
            InstancedScene(m, a, b, n1, n2, "lib"),
            InstancedScene(m, a, b, n1, n2, "g1"),
            InstancedScene(m, a, b, n1, n2, "nowhere") } :
          << m, a, b, n1, n2 >> \in
            Meters \X GeometryIds \X GeometryIds
                   \X {<< >>, << "A" >>} \X {<< >>, << "B" >>} }

-----------------------------------------------------------------------------
(* SpecScene: two calls of Load on one loader.  call is [stack, nodes, next, *)
(* returned, files]: the activations of LoadNode, the nodes LoadScene walks *)
(* and the next of them, the meshes Load has returned and the documents     *)
(* they were loaded from.  doc is the document of the file the caller names *)
(* in the call that is running or, between calls, in the next one: the same *)
(* file again, or a copy of it that lacks the <asset> element.              *)

\* the number of times Load is called
Loads == 2

InitScene ==
  /\ doc \in [elems : SceneDocs]
  /\ loader = NewLoader
  /\ call = [stack |-> << >>, nodes |-> << >>, next |-> 1, returned |-> << >>,
             files |-> << >>]
  /\ frame = NewFrame("none", Identity)
  /\ subMesh = NewSubMesh(<< >>, "none")
  /\ mesh = NewMesh
  /\ pc = "idle"

\* the document without the <asset> child of its root
WithoutAsset(elems) ==
  IF elems # << >> /\ "asset" \in DOMAIN elems[1]
  THEN [elems EXCEPT ![1] = [f \in DOMAIN elems[1] \ {"asset"} |-> elems[1][f]]]
  ELSE elems

\* the documents of the files the caller may name in the next call of Load
NextFiles == {doc.elems, WithoutAsset(doc.elems)}

Top == call.stack[Len(call.stack)]

\* the sub-meshes of msh that hold a value read past the end of its array
PastEndSubMeshes(msh) ==
  {k \in 1..Len(msh.subMeshes) :
     \/ \E j \in 1..Len(msh.subMeshes[k].vertices) :
          msh.subMeshes[k].vertices[j] = PastEnd
     \/ \E j \in 1..Len(msh.subMeshes[k].normals) :
          msh.subMeshes[k].normals[j] = PastEnd
     \/ \E j \in 1..Len(msh.subMeshes[k].texcoords) :
          msh.subMeshes[k].texcoords[j] = PastEnd}

\* How a pass of LoadNode's instance loops that would take `before` to rs can
\* end: a null dereference faults; a read past the end of an array either
\* faults or yields whatever lies there; anything else goes on with the scene.
Outcomes(before, rs) ==
  IF rs.pc = "crashed" THEN {rs}
  ELSE IF PastEndSubMeshes(rs.mesh) # PastEndSubMeshes(before.mesh)
  THEN {[rs EXCEPT !.pc = "scene"], Crashed(before)}
  ELSE {[rs EXCEPT !.pc = "scene"]}

\* the nearest activation is past its <node> children
ChildrenDone == Top.child > Len(NodeChildren(Top.elem))

\* Load, up to the loop of LoadScene
LoadStart ==
  /\ pc = "idle"
  /\ Len(call.returned) < Loads
  /\ IF RootFaults
     THEN /\ loader' = LoadBegin(loader)
          /\ pc' = "crashed"
          /\ UNCHANGED << mesh, call >>
     ELSE IF SceneFaults
     THEN /\ loader' = ReadUnit(CheckVersion(LoadBegin(loader)))
          /\ mesh' = NewMesh
          /\ pc' = "crashed"
          /\ UNCHANGED call
     ELSE /\ loader' =
               IF VisualSceneXml = 0
               THEN Err(ReadUnit(CheckVersion(LoadBegin(loader))),
                        "Unable to find visual_scene")
               ELSE ReadUnit(CheckVersion(LoadBegin(loader)))
          /\ mesh' = NewMesh
          /\ call' = [call EXCEPT !.stack = << >>, !.nodes = LoadScene,
                                  !.next = 1]
          /\ pc' = "scene"
  /\ UNCHANGED << doc, frame, subMesh >>

\* LoadScene: this->LoadNode(nodeXml, _mesh, Identity), up to its first loop
LoadSceneNode ==
  /\ pc = "scene"
  /\ call.stack = << >>
  /\ call.next <= Len(call.nodes)
  /\ loader' = NameNode(loader, call.nodes[call.next])
  /\ call' = [call EXCEPT
                !.stack = << NodeActivation(call.nodes[call.next], Identity) >>,
                !.next = @ + 1]
  /\ UNCHANGED << doc, frame, subMesh, mesh, pc >>

\* LoadNode: this->LoadNode(nodeXml, _mesh, transform) for a <node> child
LoadNodeChild ==
  /\ pc = "scene"
  /\ call.stack # << >>
  /\ ~Top.returning
  /\ ~ChildrenDone
  /\ LET elem == NodeChildren(Top.elem)[Top.child]
     IN /\ loader' = NameNode(loader, elem)
        /\ call' = [call EXCEPT
                      !.stack = Append([@ EXCEPT ![Len(@)].child = @ + 1],
                                       NodeActivation(elem, Top.transform))]
  /\ UNCHANGED << doc, frame, subMesh, mesh, pc >>

\* LoadNode: if (_elem->FirstChildElement("instance_node")) { ... return; }
LoadNodeInstanceNode ==
  /\ pc = "scene"
  /\ call.stack # << >>
  /\ ~Top.returning
  /\ ChildrenDone
  /\ HasChild(Top.elem, "instance_node")
  /\ LET nodeXml == ElementId(<< "node" >>, Child(Top.elem, "instance_node").url)
     IN IF nodeXml = 0
        THEN /\ call' = [call EXCEPT !.stack = SubSeq(@, 1, Len(@) - 1)]
             /\ loader' = Err(loader, "Unable to find node")
        ELSE /\ loader' = NameNode(loader, nodeXml)
             /\ call' = [call EXCEPT
                           !.stack = Append([@ EXCEPT ![Len(@)].returning = TRUE],
                                            NodeActivation(nodeXml, Top.transform))]
  /\ UNCHANGED << doc, frame, subMesh, mesh, pc >>

\* LoadNode: one pass of while (instGeomXml)
LoadNodeGeometry ==
  /\ pc = "scene"
  /\ call.stack # << >>
  /\ ~Top.returning
  /\ ChildrenDone
  /\ ~HasChild(Top.elem, "instance_node")
  /\ Top.geom <= Len(InstanceGeometries(Top.elem))
  /\ \E rs \in Outcomes(Running,
                LoadInstanceGeometry(Running,
                  InstanceGeometries(Top.elem)[Top.geom], Top.transform)) :
       Become(rs)
  /\ call' = [call EXCEPT !.stack[Len(call.stack)].geom = @ + 1]
  /\ UNCHANGED doc

\* LoadNode: one pass of while (instContrXml)
LoadNodeController ==
  /\ pc = "scene"
  /\ call.stack # << >>
  /\ ~Top.returning
  /\ ChildrenDone
  /\ ~HasChild(Top.elem, "instance_node")
  /\ Top.geom > Len(InstanceGeometries(Top.elem))
  /\ Top.contr <= Len(InstanceControllers(Top.elem))
  /\ \E garbage \in SkinGarbage :
       \E rs \in Outcomes(Running,
                  LoadInstanceController(Running,
                    InstanceControllers(Top.elem)[Top.contr], Top.transform,
                    garbage)) :
         Become(rs)
  /\ call' = [call EXCEPT !.stack[Len(call.stack)].contr = @ + 1]
  /\ UNCHANGED doc

\* LoadNode returns
LoadNodeReturn ==
  /\ pc = "scene"
  /\ call.stack # << >>
  /\ \/ Top.returning
     \/ /\ ChildrenDone
        /\ ~HasChild(Top.elem, "instance_node")
        /\ Top.geom > Len(InstanceGeometries(Top.elem))
        /\ Top.contr > Len(InstanceControllers(Top.elem))
  /\ call' = [call EXCEPT !.stack = SubSeq(@, 1, Len(@) - 1)]
  /\ UNCHANGED << doc, loader, frame, subMesh, mesh, pc >>

\* LoadScene returns; mesh->Scale(meter); return mesh
LoadReturn ==
  /\ pc = "scene"
  /\ call.stack = << >>
  /\ call.next > Len(call.nodes)
  /\ mesh' = Scale(mesh, loader.meter)
  /\ call' = [call EXCEPT !.returned = Append(@, mesh'),
                          !.files = Append(@, doc.elems)]
  /\ pc' = "idle"
  /\ \E elems \in NextFiles : doc' = [elems |-> elems]
  /\ UNCHANGED << loader, frame, subMesh >>

NextScene ==
  \/ LoadStart
  \/ LoadSceneNode
  \/ LoadNodeChild
  \/ LoadNodeInstanceNode
  \/ LoadNodeGeometry
  \/ LoadNodeController
  \/ LoadNodeReturn
  \/ LoadReturn

SpecScene == InitScene /\ [][NextScene]_vars

-----------------------------------------------------------------------------
(* Properties of Load. *)

\* what the caller of Load sees of a sub-mesh
SubMeshView(sm) ==
  [name |-> sm.name, vertices |-> sm.vertices, normals |-> sm.normals,
   texcoords |-> sm.texcoords, indices |-> sm.indices,
   materialIndex |-> sm.materialIndex]

MeshView(msh) == [k \in 1..Len(msh.subMeshes) |-> SubMeshView(msh.subMeshes[k])]

\* C6: Load called twice on one document with one loader returns identical
\* meshes: the same sub-meshes in the same order with the same names,
\* vertices, normals, texcoords, indices and material indices.
C6_SecondLoadIdentical ==
  Len(call.returned) = 2 /\ call.files[1] = call.files[2] =>
    MeshView(call.returned[1]) = MeshView(call.returned[2])

\* the node of the first activation of a load has a name attribute
FirstNodeNamed == call.nodes # << >> /\ HasChild(call.nodes[1], "name")

\* the two meshes are identical when the first node LoadScene visits is named
C6_IdenticalWhenFirstNodeNamed ==
  Len(call.returned) = 2 /\ call.files[1] = call.files[2] /\ FirstNodeNamed =>
    MeshView(call.returned[1]) = MeshView(call.returned[2])

\* the 3-tuples of the <float_array> of source id
SourceTuples(id) ==
  LET text == Child(ElementId(<< "source" >>, << id >>), "float_array").text
  IN [k \in 1..(Len(text) \div 3) |->
        << text[3 * k - 2], text[3 * k - 1], text[3 * k] >>]

\* a geometry was loaded: frame holds the locals of its last primitive call,
\* verts the positions when its <vertices> and their source resolved
GeometryLoaded == frame.kind \in {"triangles", "polylist", "lines"}

\* C7: the positions the weaver is handed for a geometry instance are the
\* source 3-tuples transformed by the composed node transform T of that
\* instance, whether the source is parsed for the first time or was loaded
\* earlier in the same Load under another transform.
C7_PositionsTransformedByInstance ==
  pc = "scene" /\ GeometryLoaded /\ frame.verts # << >> =>
    frame.verts = [k \in 1..Len(SourceTuples("pos")) |->
                     MatVec(frame.transform, SourceTuples("pos")[k])]

\* the sub-meshes of a mesh as (primitive type, number of indices)
Emitted(msh) ==
  [k \in 1..Len(msh.subMeshes) |->
     << msh.subMeshes[k].primitiveType, Len(msh.subMeshes[k].indices) >>]

\* what the elements of one kind of a geometry emit; every primitive of the
\* scene documents has one input, so a corner is one token
TrianglesEmit(list) == [k \in 1..Len(list) |-> << "TRIANGLES", Len(list[k].p) >>]

PolylistEmit(list) ==
  [k \in 1..Len(list) |-> << "TRIANGLES", 3 * FanTriangles(list[k].vcount) >>]

LinesEmit(list) == [k \in 1..Len(list) |-> << "LINES", Len(list[k].p) >>]

\* all <triangles>, then all <polylist>, then all <lines>
GeometryEmits(url) ==
  IF ~HasChild(ElementId(<< "geometry" >>, url), "mesh") THEN << >>
  ELSE LET meshXml == Child(ElementId(<< "geometry" >>, url), "mesh")
       IN TrianglesEmit(meshXml.triangles) \o PolylistEmit(meshXml.polylist)
            \o LinesEmit(meshXml.lines)

RECURSIVE NodeEmits(_)
RECURSIVE NodesEmit(_, _)
RECURSIVE GeometriesEmit(_, _)
RECURSIVE ControllersEmit(_, _)

\* the child nodes, then the node's own geometries, then its controllers; a
\* node with an <instance_node> emits its children and then the target
NodeEmits(elem) ==
  NodesEmit(NodeChildren(elem), 1) \o
  IF HasChild(elem, "instance_node")
  THEN LET target == ElementId(<< "node" >>, Child(elem, "instance_node").url)
       IN IF target = 0 THEN << >> ELSE NodeEmits(target)
  ELSE GeometriesEmit(InstanceGeometries(elem), 1) \o
       ControllersEmit(InstanceControllers(elem), 1)

\* the nodes from the i-th on, in document order
NodesEmit(nodes, i) ==
  IF i > Len(nodes) THEN << >>
  ELSE NodeEmits(nodes[i]) \o NodesEmit(nodes, i + 1)

GeometriesEmit(insts, i) ==
  IF i > Len(insts) THEN << >>
  ELSE GeometryEmits(insts[i].url) \o GeometriesEmit(insts, i + 1)

ControllersEmit(insts, i) ==
  IF i > Len(insts) THEN << >>
  ELSE GeometryEmits(
         Child(ElementId(<< "controller" >>, insts[i].url), "skin").source)
       \o ControllersEmit(insts, i + 1)

IsPrefix(s, t) == Len(s) <= Len(t) /\ s = SubSeq(t, 1, Len(s))

\* C8: sub-meshes appear in emission order: top-level scene nodes in
\* document order; for each node the sub-meshes of its child nodes, then
\* those of its instance_geometry elements, then those of its
\* instance_controller elements; within a geometry all <triangles>, then all
\* <polylist>, then all <lines>.
C8_SubMeshesInEmissionOrder ==
  /\ pc = "scene" => IsPrefix(Emitted(mesh), NodesEmit(call.nodes, 1))
  /\ \A k \in 1..Len(call.returned) :
       Emitted(call.returned[k]) = NodesEmit(call.nodes, 1)

\* a node with a child, a geometry of three kinds and a controller was loaded:
\* the child's sub-meshes, then those of the geometry, then the skin's
C8_ChildGeometryControllerLoaded ==
  /\ pc = "idle"
  /\ Len(call.returned) >= 1
  /\ Emitted(mesh) =
       << << "TRIANGLES", 6 >>, << "LINES", 4 >>,
          << "TRIANGLES", 3 >>, << "TRIANGLES", 9 >>, << "LINES", 2 >>,
          << "TRIANGLES", 6 >>, << "LINES", 4 >> >>

-----------------------------------------------------------------------------
(* Load on documents with parts that do not resolve. *)

\* C11: when a geometry URL, a <vertices> element or a position source does
\* not resolve, or a <float_array> of non-zero declared count has no text,
\* the loader emits an error and goes on: the load does not fault, no value
\* is read past the end of an empty or too-short array, and a mesh is
\* returned.
C11_UnresolvedPartsSkipped ==
  /\ pc # "crashed"
  /\ PastEndSubMeshes(mesh) = {}
  /\ \A k \in 1..Len(call.returned) : PastEndSubMeshes(call.returned[k]) = {}
  /\ (doc.elems \in {UnresolvedScene(kind) : kind \in Unresolved}
        /\ Len(call.returned) >= 1) => loader.errors # << >>

\* a document without a <COLLADA> root or without a <scene> under it
MissingRoot == ColladaXml = 0 \/ ~HasChild(1, "scene")

\* Load has been called
Called == pc # "idle" \/ call.returned # << >>

\* C12: on a document without a <COLLADA> root or without a <scene>, Load
\* emits an error and returns; it reads nothing of the missing element, so
\* the process does not fault.
C12_MissingRootReturns ==
  (MissingRoot /\ Called) =>
    /\ pc = "idle"
    /\ loader.errors # << >>

\* C13: the error 'Unable to load collada file' is emitted exactly when the
\* file could not be read, and a load that could not read its file returns
\* without parsing.
C13_UnableToLoadIffReadFails ==
  Called =>
    /\ (\E i \in 1..Len(loader.errors) :
          loader.errors[i] = "Unable to load collada file")
         <=> doc.elems = Unreadable
    /\ doc.elems = Unreadable => pc = "idle"

-----------------------------------------------------------------------------
(* The scale of the returned mesh. *)

\* the meter attribute of <asset><unit> of the document, 1 without one
UnitMeter ==
  IF /\ HasChild(1, "asset")
     /\ "unit" \in DOMAIN Child(1, "asset")
     /\ "meter" \in DOMAIN Child(1, "asset").unit
  THEN Child(1, "asset").unit.meter ELSE 1

\* the step in which Load returns: the mesh returned is the mesh the scene
\* built, scaled by the unit of the document being loaded
ReturnScales ==
  (pc = "scene" /\ pc' = "idle") =>
    (mesh' = Scale(mesh, UnitMeter)
       /\ call'.returned = Append(call.returned, mesh'))

\* a step of the scene leaves the sub-meshes already in the mesh as they are
SceneKeeps ==
  (pc = "scene" /\ pc' = "scene") => IsPrefix(mesh.subMeshes, mesh'.subMeshes)

\* C14: Load scales the mesh once, by unit_meter on all three axes, when the
\* whole scene is loaded: the mesh it returns is the mesh the scene built
\* scaled by the unit of the document being loaded (1 without <unit meter>),
\* whatever was loaded before, and no step of the scene changes a sub-mesh
\* that is already in the mesh.
C14_ScaledOnceByUnitMeter == [][ReturnScales /\ SceneKeeps]_vars

\* a document with <unit meter="2"> was loaded and then its copy without
\* <asset>: the same first sub-mesh, twice as large the first time
C14_UnitThenNoUnitLoaded ==
  /\ Len(call.returned) = 2
  /\ call.files[1] # call.files[2]
  /\ call.returned[2].subMeshes # << >>
  /\ call.returned[1].subMeshes[1].vertices =
       [j \in 1..Len(call.returned[2].subMeshes[1].vertices) |->
          ScaleVector(call.returned[2].subMeshes[1].vertices[j], 2)]

-----------------------------------------------------------------------------
(* The caches of a loader across calls of Load. *)

\* the three source caches, their duplicate maps and the material cache
CachesEmpty(ld) ==
  /\ ld.positionIds = EmptyMap
  /\ ld.normalIds = EmptyMap
  /\ ld.texcoordIds = EmptyMap
  /\ ld.positionDuplicateMap = EmptyMap
  /\ ld.normalDuplicateMap = EmptyMap
  /\ ld.texcoordDuplicateMap = EmptyMap
  /\ ld.materialIds = EmptyMap

\* the step in which Load is called leaves the seven caches empty
StartsEmpty == (pc = "idle" /\ pc' # "idle") => CachesEmpty(loader')

\* C15: at the start of every Load the position, normal and texcoord caches,
\* their duplicate maps and the material cache are empty: nothing cached in
\* an earlier Load is there to be returned in a later one.
C15_CachesEmptyAtStartOfLoad == [][StartsEmpty]_vars

\* a second Load has just started, after a first that filled the position
\* and material caches of the same ids
C15_SecondLoadStarted ==
  /\ Len(call.returned) = 1
  /\ call.returned[1].subMeshes # << >>
  /\ call.returned[1].materials # << >>
  /\ pc = "scene"
  /\ call.stack = << >>
  /\ call.next = 1
  /\ CachesEmpty(loader)

-----------------------------------------------------------------------------
(* Materials. *)

\* the materials of msh are of pairwise different <material> elements
HeldOnce(msh) ==
  \A i, j \in 1..Len(msh.materials) :
    msh.materials[i].xml = msh.materials[j].xml => i = j

\* C16: primitives of one Load whose material attributes resolve to the same
\* <material> get the same material index and the mesh holds that material
\* once, whether the attribute is a symbol of the material map or the id
\* itself, with or without '#': no two materials of a mesh are of the same
\* <material> element.
C16_SameMaterialHeldOnce ==
  /\ HeldOnce(mesh)
  /\ \A k \in 1..Len(call.returned) : HeldOnce(call.returned[k])

\* the <material> element of the material of sub-mesh sm of msh, 0 for none
MaterialOf(msh, sm) ==
  IF sm.materialIndex < 0 THEN 0 ELSE msh.materials[sm.materialIndex + 1].xml

\* the <material> element the material attribute of primitive xml stands for
\* under the bindings of instance inst alone: the target of its last binding
\* of that symbol, the attribute itself without one; 0 for none
Resolved(xml, inst) ==
  IF "material" \notin DOMAIN xml THEN 0
  ELSE LET own == {b \in 1..Len(inst.bind_material) :
                     inst.bind_material[b].symbol = xml.material}
           id == IF own = {} THEN xml.material
                 ELSE inst.bind_material[CHOOSE b \in own :
                                           \A x \in own : x <= b].target
           matXml == ElementId(<< "material" >>, id)
       IN IF HasChild(matXml, "instance_effect") THEN matXml ELSE 0

\* the bindings of instance inst alone
OwnBindings(inst) ==
  [symbol \in {inst.bind_material[b].symbol : b \in 1..Len(inst.bind_material)}
     |-> inst.bind_material[CHOOSE b \in 1..Len(inst.bind_material) :
           /\ inst.bind_material[b].symbol = symbol
           /\ \A x \in 1..Len(inst.bind_material) :
                inst.bind_material[x].symbol = symbol => x <= b].target]

\* a step that wove the primitives of geometry geomXml for instance inst and
\* went on: the material map is the instance's own bindings, and each of the
\* sub-meshes added has the material its primitive resolves to under them
WovenUnderOwnBindings(inst, geomXml) ==
  pc' = "scene" =>
    /\ DOMAIN loader'.materialMap = DOMAIN OwnBindings(inst)
    /\ \A symbol \in DOMAIN OwnBindings(inst) :
         loader'.materialMap[symbol] = OwnBindings(inst)[symbol]
    /\ Len(mesh'.subMeshes) = Len(mesh.subMeshes) + Len(GeometryCalls(geomXml))
    /\ \A i \in 1..Len(GeometryCalls(geomXml)) :
         MaterialOf(mesh', mesh'.subMeshes[Len(mesh.subMeshes) + i])
           = Resolved(GeometryCalls(geomXml)[i], inst)

\* the step is a pass of the instance_geometry loop of LoadNode
GeometryPass ==
  /\ pc = "scene"
  /\ call.stack # << >>
  /\ Len(call'.stack) = Len(call.stack)
  /\ call'.stack[Len(call.stack)].geom = Top.geom + 1

\* the step is a pass of the instance_controller loop of LoadNode
ControllerPass ==
  /\ pc = "scene"
  /\ call.stack # << >>
  /\ Len(call'.stack) = Len(call.stack)
  /\ call'.stack[Len(call.stack)].contr = Top.contr + 1

\* the geometry a controller instance skins
SkinSource(inst) ==
  ElementId(<< "geometry" >>,
            Child(ElementId(<< "controller" >>, inst.url), "skin").source)

\* what C17 asks of a step
OwnBindingsOnly ==
  /\ GeometryPass =>
       WovenUnderOwnBindings(InstanceGeometries(Top.elem)[Top.geom],
         ElementId(<< "geometry" >>, InstanceGeometries(Top.elem)[Top.geom].url))
  /\ ControllerPass =>
       WovenUnderOwnBindings(InstanceControllers(Top.elem)[Top.contr],
         SkinSource(InstanceControllers(Top.elem)[Top.contr]))

\* C17: while the primitives of an instance_geometry or instance_controller
\* are woven the material map holds exactly the symbol -> target bindings of
\* that instance: a binding of an earlier instance resolves no symbol of a
\* later one, and a symbol without a binding is taken as the material id.
C17_MaterialMapOfTheInstanceAlone == [][OwnBindingsOnly]_vars

\* an instance that binds "sym" gave its <triangles material="sym"> material
\* 0, and a later instance of the same geometry without the binding was
\* woven with an empty map and got none
C17_LaterInstanceWithoutBinding ==
  /\ pc = "scene"
  /\ Len(mesh.subMeshes) >= 4
  /\ mesh.subMeshes[1].materialIndex = 0
  /\ Len(mesh.subMeshes[4].indices) = Len(mesh.subMeshes[1].indices)
  /\ mesh.subMeshes[4].primitiveType = "TRIANGLES"
  /\ mesh.subMeshes[4].materialIndex = -1
  /\ loader.materialMap = EmptyMap

-----------------------------------------------------------------------------
(* The entries of vertexIndexMap. *)

\* the corners of the <triangles> stream processed so far (0-based)
Processed == 0..(frame.j \div frame.offsetSize) - 1

\* corner c is the first of the stream with its position index
FirstWithPosition(c) ==
  \A b \in Processed : StreamTuple(b)[1] = StreamTuple(c)[1] => c <= b

\* vertexIndexMap holds, under the position index of corner c, the entry
\* stored when c was woven: its output index, normal and texcoord indices
StoredFor(c) ==
  /\ Has(frame.vertexIndexMap, StreamTuple(c)[1])
  /\ \E i \in 1..Len(frame.vertexIndexMap[StreamTuple(c)[1]]) :
       LET iv == frame.vertexIndexMap[StreamTuple(c)[1]][i]
       IN /\ iv.mappedIndex = At(subMesh.indices, c)
          /\ frame.hasNormals => iv.normalIndex = StreamTuple(c)[2]
          /\ frame.hasTexcoords => iv.texcoordIndex = StreamTuple(c)[3]

\* C18: a corner whose position index p is in vertexIndexMap and matches no
\* stored entry gets a new output vertex, and what is stored under p is not
\* overwritten: the combination first seen for p stays stored, so that a
\* later corner with that tuple reuses the first output index.
C18_FirstSeenStaysStored ==
  pc = "corners" /\ frame.kind = "triangles" /\ frame.hasVertices
    /\ OneOffsetEach(call.xml.input) =>
    \A c \in Processed : FirstWithPosition(c) => StoredFor(c)

-----------------------------------------------------------------------------
(* The fan of LoadPolylist. *)

RECURSIVE Fan(_, _, _)
\* the corners (c0, c0+k-1, c0+k) of a polygon of n corners that starts at
\* corner c0, from k on in increasing k
Fan(c0, n, k) ==
  IF k >= n THEN << >>
  ELSE << c0, c0 + k - 1, c0 + k >> \o Fan(c0, n, k + 1)

RECURSIVE FanCorners(_, _)
\* the fans of the polygons in <vcount> order, the first starting at corner
\* c0 and each of the others where the one before ends
FanCorners(vcounts, c0) ==
  IF vcounts = << >> THEN << >>
  ELSE Fan(c0, Head(vcounts), 2)
         \o FanCorners(Tail(vcounts), c0 + Head(vcounts))

\* C19: LoadPolylist takes the polygons in <vcount> order; of a polygon of n
\* corners that starts at corner c0 of the stream it weaves the corners
\* (c0, c0+k-1, c0+k) for k = 2 .. n-1 in increasing k, none when n < 3, and
\* the next polygon starts at corner c0+n.  A corner is the W tokens of the
\* primitive's W inputs, one offset each; the m-th corner woven is the m-th of
\* those fans, and when the call returns all of them were woven.
C19_PolylistFanOrder ==
  frame.kind = "polylist" /\ pc \in {"corners", "return"}
    /\ OneOffsetEach(call.xml.input) =>
    LET fan == FanCorners(call.xml.vcount, 0)
        W == Width(call.xml.input)
        m == IF pc = "return" THEN Len(mesh.subMeshes[1].indices)
             ELSE Len(subMesh.indices)
    IN /\ m <= Len(fan)
       /\ pc = "return" => m = Len(fan)
       /\ m > 0 => \A i \in 0..(W - 1) :
                     frame.values[i] = At(call.xml.p, fan[m] * W + i)

\* C19 away from the stride of C25: when the code's stride inputs.size() is
\* the width W of the stream's corners, the corners are woven in fan order
C19_FanOrderWhenStrideIsWidth ==
  InputsSize(frame) = Width(call.xml.input) => C19_PolylistFanOrder

\* a quad followed by a triangle was woven: the corners 0,1,2, 0,2,3 and
\* 4,5,6 of a stream of seven positions
C19_QuadThenTriangleWoven ==
  /\ pc = "return"
  /\ frame.kind = "polylist"
  /\ call.xml.vcount = << 4, 3 >>
  /\ call.xml.p = << 0, 1, 1, 0, 1, 0, 0 >>
  /\ mesh.subMeshes[1].indices = << 0, 1, 1, 0, 1, 0, 1, 0, 0 >>

-----------------------------------------------------------------------------
(* The vertices of a skinned sub-mesh. *)

\* the (node, weight) assignments of output vertex out of sub-mesh sm
AssignmentsOf(sm, out) ==
  LET own == SelectSeq(sm.nodeAssignments, LAMBDA a : a.vertexIndex = out)
  IN [k \in 1..Len(own) |-> << own[k].node, own[k].weight >>]

\* the attachments the skeleton holds for source vertex p, by node handle
AttachmentsOf(skel, p) ==
  [k \in 1..Len(VertNodeWeights(skel, p)) |->
     << NodeHandle(skel, VertNodeWeights(skel, p)[k][1]),
        VertNodeWeights(skel, p)[k][2] >>]

\* C20: with a skeleton, an output vertex the weaver emits has its position
\* left-multiplied by the bind-shape matrix and gets the attachments the
\* skeleton holds for its source vertex p, the corner's remapped position
\* index, one node assignment each.  Here for the corners of the skinned
\* <triangles>, whose one input is VERTEX.
C20_SkinnedVertexBoundAndAttached ==
  pc = "return" /\ Len(mesh.subMeshes) = 1 =>
    LET sm == mesh.subMeshes[1]
        skel == MeshSkeleton(mesh)
    IN \A c \in 0..(Len(SkinTriangles.p) - 1) :
         LET p == Remap(frame.positionDupMap, At(SkinTriangles.p, c))
             out == At(sm.indices, c)
         IN /\ At(sm.vertices, out) = MatVec(skel.bindShape, At(frame.verts, p))
            /\ AssignmentsOf(sm, out) = AttachmentsOf(skel, p)

-----------------------------------------------------------------------------
(* The width of a corner in the <p> stream. *)

\* the name of a recognised semantic
SemanticName(s) ==
  IF s = VERTEX THEN "VERTEX" ELSE IF s = NORMAL THEN "NORMAL" ELSE "TEXCOORD"

\* the offsets that the <input> elements of semantic s declare
DeclaredOffsets(inputs, s) ==
  {inputs[i].offset : i \in {n \in 1..Len(inputs) :
                               inputs[n].semantic = SemanticName(s)}}

\* the corner of the stream (0-based) that the last pass of the loop wove
LastCorner ==
  IF frame.kind = "triangles" THEN (frame.j \div frame.offsetSize) - 1
  ELSE FanCorners(call.xml.vcount, 0)[Len(subMesh.indices)]

\* C25: LoadTriangles and LoadPolylist consume the <p> stream W integers per
\* corner, W the number of distinct offsets of the <input> elements, and read
\* the index of each semantic at its declared offset inside the W-tuple: the
\* corner just woven lies inside the stream and the index used for VERTEX,
\* NORMAL and TEXCOORD is the token at (corner x W + declared offset).
C25_CornerIsWTokens ==
  Woven /\ pc = "corners" /\ subMesh.indices # << >> =>
    LET W == Width(call.xml.input)
    IN \A s \in DOMAIN frame.inputs \cap {VERTEX, NORMAL, TEXCOORD} :
         /\ frame.inputs[s] \in DeclaredOffsets(call.xml.input, s)
         /\ LastCorner * W + frame.inputs[s] < Len(call.xml.p)
         /\ frame.values[frame.inputs[s]] =
              At(call.xml.p, LastCorner * W + frame.inputs[s])

\* the stride of the code's loop over <p>
CodeStride ==
  IF frame.kind = "triangles" THEN TrianglesStride(frame) ELSE InputsSize(frame)

\* C25 away from its defect: when the inputs have one offset each and the
\* code's stride happens to be W, the corners are the W-tuples
C25_WTokensWhenStrideIsWidth ==
  OneOffsetEach(call.xml.input) /\ CodeStride = Width(call.xml.input) =>
    C25_CornerIsWTokens

-----------------------------------------------------------------------------
(* A <triangles> without <p> text. *)

Invalid == "Collada file is invalid. Loading what we can..."

ErrorsOf(ld) == {ld.errors[i] : i \in 1..Len(ld.errors)}

\* LoadTriangles returned from an element that has no <p> text
ReturnedWithoutP ==
  /\ pc = "return" /\ call.xml.kind = "triangles"
  /\ ("p" \notin DOMAIN call.xml \/ call.xml.p = << >>)

\* the count attribute is there and is the number 0
CountIsZero ==
  /\ "count" \in DOMAIN call.xml
  /\ call.xml.count.number /\ call.xml.count.value = 0

\* C26: a <triangles> without <p> text is skipped as a whole: no sub-mesh is
\* added for it and the mesh's material list is what it was before (here:
\* empty); an error is emitted when its count is absent, unparseable or
\* non-zero, and none when its count is 0.
C26_TrianglesWithoutPSkipped ==
  ReturnedWithoutP =>
    /\ mesh.subMeshes = << >>
    /\ mesh.materials = << >>
    /\ Invalid \in ErrorsOf(loader) <=> ~CountIsZero

\* C26 but for the material list: no sub-mesh, and the error by the count
C26_NoSubMeshAndErrorByCount ==
  ReturnedWithoutP =>
    /\ mesh.subMeshes = << >>
    /\ Invalid \in ErrorsOf(loader) <=> ~CountIsZero

-----------------------------------------------------------------------------
(* The names of the sub-meshes. *)

\* the sub-meshes a pass of the instance_geometry or instance_controller loop
\* of a node with a name attribute added carry that node's name
NamedAfterOwnNode ==
  (GeometryPass \/ ControllerPass) /\ HasChild(Top.elem, "name")
    /\ pc' = "scene" =>
    \A i \in (Len(mesh.subMeshes) + 1)..Len(mesh'.subMeshes) :
      mesh'.subMeshes[i].name = Child(Top.elem, "name")

\* C27: every sub-mesh produced from an instance_geometry or
\* instance_controller of a node that has a name attribute is named with that
\* node's own name, also when the node has child nodes (or an earlier sibling
\* subtree) that carry name attributes of their own.
C27_SubMeshNamedAfterOwnNode == [][NamedAfterOwnNode]_vars

\* the node has no child nodes
Childless == call.stack # << >> /\ NodeChildren(Top.elem) = << >>

\* C27 for the nodes without child nodes, where it holds
C27_NamedAfterOwnNodeWhenChildless == [][Childless => NamedAfterOwnNode]_vars

-----------------------------------------------------------------------------
(* <polylist> of triangles against <triangles>. *)

\* the <polylist> with the inputs, the material and the <p> of <triangles>
\* element xml, every <vcount> entry 3
AsPolylist(xml) ==
  LET n == Len(xml.p) \div (3 * Width(xml.input))
      poly == [kind |-> "polylist", input |-> xml.input, p |-> xml.p,
               vcount |-> [l \in 1..n |-> 3]]
  IN IF "material" \in DOMAIN xml THEN Put(poly, "material", xml.material)
     ELSE poly

\* the loader, the mesh and the locals that a call of SpecWeave starts from
BeforeCall ==
  [loader |-> NewLoader, frame |-> NewFrame("none", Identity),
   subMesh |-> NewSubMesh(<< >>, "none"), mesh |-> NewMesh, pc |-> "call"]

\* LoadTriangles returned from an element with <p> text
TrianglesWoven ==
  /\ pc = "return" /\ call.xml.kind = "triangles"
  /\ "p" \in DOMAIN call.xml /\ call.xml.p # << >>

\* C28: a <polylist> whose <vcount> entries are all 3 produces the same
\* sub-mesh (positions, normals, texcoords, index stream, node assignments) as
\* a <triangles> with the same <input> elements and the same <p>.  Here for a
\* mesh without a skeleton: what LoadTriangles built is what LoadPolylist
\* builds from the same start.
C28_PolylistOfTrianglesAsTriangles ==
  TrianglesWoven =>
    mesh.subMeshes =
      LoadPolylist(BeforeCall, AsPolylist(call.xml), call.transform,
                   NoGarbage).mesh.subMeshes

\* C28 away from C25: when the strides of both are the width W
C28_SameWhenStrideIsWidth ==
  OneOffsetEach(call.xml.input)
    /\ Len(call.xml.input)
         = Cardinality({call.xml.input[i].semantic :
                          i \in 1..Len(call.xml.input)}) =>
    C28_PolylistOfTrianglesAsTriangles

-----------------------------------------------------------------------------
(* The source cache against a fresh parse. *)

\* the call of SpecSource made with loader ld and the caller's buffers e
LoadSource(ld, e) ==
  IF call.fn = "LoadPositions"
  THEN LoadPositions(ld, call.id, call.transform, e.values, e.duplicates)
  ELSE IF call.fn = "LoadNormals"
  THEN LoadNormals(ld, call.id, call.transform, e.values, e.duplicates)
  ELSE LoadTexCoords(ld, call.id, e.values, e.duplicates)

\* the caller's buffers that a call left
Buffers(r) == [values |-> r.values, duplicates |-> r.duplicates]

\* what the loader caches for the id of the call
CacheEntry(ld) ==
  IF call.fn = "LoadPositions"
  THEN [values |-> ld.positionIds[call.id],
        duplicates |-> ld.positionDuplicateMap[call.id]]
  ELSE IF call.fn = "LoadNormals"
  THEN [values |-> ld.normalIds[call.id],
        duplicates |-> ld.normalDuplicateMap[call.id]]
  ELSE [values |-> ld.texcoordIds[call.id],
        duplicates |-> ld.texcoordDuplicateMap[call.id]]

\* the source's own values: what a parse into empty buffers yields
OwnValues ==
  Buffers(LoadSource(NewLoader, [values |-> << >>, duplicates |-> EmptyMap]))

\* C29: LoadPositions, LoadNormals and LoadTexCoords leave the caller's value
\* buffer and duplicate map in the same final state whether the source id is
\* served from the cache or parsed afresh, also when the caller's buffers are
\* not empty on entry; and the entry stored in the cache for an id holds only
\* that source's own values.  Here after a call that parsed the source: the
\* loader now serves the id from its cache.
C29_CacheAsFreshParse ==
  pc = "return" =>
    /\ CacheEntry(loader) = OwnValues
    /\ \A e \in Entries(call.fn) :
         Buffers(LoadSource(loader, e)) = Buffers(LoadSource(NewLoader, e))

\* C29 for empty buffers: after a parse into empty buffers the cache entry
\* is the source's own values, and a call with empty buffers gets from the
\* cache what a fresh parse gives it
C29_CacheAsFreshParseIntoEmpty ==
  pc = "return" /\ call.entry.values = << >> =>
    LET e == [values |-> << >>, duplicates |-> EmptyMap]
    IN /\ CacheEntry(loader) = OwnValues
       /\ Buffers(LoadSource(loader, e)) = Buffers(LoadSource(NewLoader, e))

-----------------------------------------------------------------------------
(* What ElementId resolves a reference to. *)

\* the tags and the references of the document: every id and sid, bare and
\* behind one '#'
TagsOf(elems) == {elems[i].tag : i \in 1..Len(elems)}

RefsOf(elems) ==
  LET ids == ({elems[i].id : i \in 1..Len(elems)}
                \cup {elems[i].sid : i \in 1..Len(elems)}) \ {NoAttr}
  IN ids \cup {<< "#" >> \o id : id \in ids}

\* ref with one leading '#' removed
WithoutHash(ref) == IF ref[1] = "#" THEN SubSeq(ref, 2, Len(ref)) ELSE ref

\* the elements of tag name whose id or sid is id, by their place in the
\* document's pre-order
Tagged(name, id) ==
  {i \in 1..Len(doc.elems) :
     /\ doc.elems[i].tag = name
     /\ \/ doc.elems[i].id # NoAttr /\ doc.elems[i].id = id
        \/ doc.elems[i].sid # NoAttr /\ doc.elems[i].sid = id}

\* C30: ElementId(name, ref) with a non-empty ref returns the first element
\* in document pre-order that has tag name and whose id or sid equals ref
\* with one leading '#' removed, and null when there is none: an element of
\* another tag that has the id or sid is never returned.
C30_ResolvesToElementOfKind ==
  \A name \in TagsOf(doc.elems), ref \in RefsOf(doc.elems) :
    LET found == ElementId(name, ref)
        tagged == Tagged(name, WithoutHash(ref))
    IN IF tagged = {} THEN found = 0
       ELSE found \in tagged /\ \A i \in tagged : found <= i

\* C30 but for the tag: ElementId returns the first element in pre-order
\* whose id or sid is the reference, whatever its tag, null when none has it
C30_ResolvesToFirstWithId ==
  \A name \in TagsOf(doc.elems), ref \in RefsOf(doc.elems) :
    LET found == ElementId(name, ref)
        any == UNION {Tagged(tag, WithoutHash(ref)) : tag \in TagsOf(doc.elems)}
    IN IF any = {} THEN found = 0
       ELSE found \in any /\ \A i \in any : found <= i

-----------------------------------------------------------------------------
(* The transform of a node. *)

\* the document order of the transformation children of a node
OrderOf(elem) ==
  IF HasChild(elem, "order") THEN Child(elem, "order")
  ELSE IF HasChild(elem, "translate") THEN << "translate" >>
  ELSE << >>

\* the factor of the child of the given kind, of the <rotate> children the
\* one at place rot
Factor(elem, kind, rot) ==
  IF kind = "translate"
  THEN [Identity EXCEPT !.t = Child(elem, "translate").value]
  ELSE IF kind = "rotate"
  THEN Axis(Rotates(elem)[rot].value.axis, Rotates(elem)[rot].value.angle)
  ELSE ScaleMat(Child(elem, "scale").value)

RECURSIVE Composed(_, _, _, _)
\* the product of the factors of the children from place i of order on,
\* rot being the place of the next <rotate>
Composed(elem, order, i, rot) ==
  IF i > Len(order) THEN Identity
  ELSE MatMul(Factor(elem, order[i], rot),
              Composed(elem, order, i + 1,
                       IF order[i] = "rotate" THEN rot + 1 ELSE rot))

\* what the claim takes the transform of a node to be
InDocumentOrder(elem) ==
  IF HasChild(elem, "matrix") THEN Child(elem, "matrix").value
  ELSE Composed(elem, OrderOf(elem), 1, 1)

\* the transform of activation k of LoadNode is its parent's transform
\* times the node's own in document order
ActivationInDocumentOrder(k) ==
  call.stack[k].transform =
    MatMul(IF k = 1 THEN Identity ELSE call.stack[k - 1].transform,
           InDocumentOrder(call.stack[k].elem))

\* C24: for a node without a <matrix> child LoadNodeTransform composes the
\* <translate>, <rotate> and <scale> children in the order they appear in
\* the document, each child one right-multiplied factor (a <rotate> written
\* before the <translate> is applied before it); with a <matrix> child the
\* result is that matrix and the other children are ignored.  LoadNode
\* multiplies the result onto the transform of the node's parent.
C24_ComposedInDocumentOrder ==
  pc = "scene" => \A k \in 1..Len(call.stack) : ActivationInDocumentOrder(k)

\* the children are written translate, rotate, scale, or there is a matrix
CanonicalOrder(elem) ==
  \/ HasChild(elem, "matrix")
  \/ OrderOf(elem) \in {<< >>, << "translate" >>, << "rotate" >>, << "scale" >>,
                        << "translate", "rotate" >>, << "translate", "scale" >>,
                        << "rotate", "scale" >>,
                        << "translate", "rotate", "scale" >>}

\* C24 for the nodes written in the order the code composes in
C24_ComposedWhenCanonical ==
  pc = "scene" =>
    \A k \in 1..Len(call.stack) :
      CanonicalOrder(call.stack[k].elem) => ActivationInDocumentOrder(k)

-----------------------------------------------------------------------------
(* The raw transforms of the skeleton nodes. *)

\* the <matrix>, <translate>, <rotate> and <scale> children of element e,
\* each by its kind, its source parameters and its own sid
TransformChildren(e) ==
  (IF HasChild(e, "matrix")
   THEN {RawTransform("MATRIX", Child(e, "matrix").value, Child(e, "matrix").sid)}
   ELSE {})
  \cup (IF HasChild(e, "translate")
        THEN {RawTransform("TRANSLATE", Child(e, "translate").value,
                           Child(e, "translate").sid)}
        ELSE {})
  \cup {RawTransform("ROTATE", Rotates(e)[i].value, Rotates(e)[i].sid) :
          i \in 1..Len(Rotates(e))}
  \cup (IF HasChild(e, "scale")
        THEN {RawTransform("SCALE", Child(e, "scale").value, Child(e, "scale").sid)}
        ELSE {})

\* the raw transforms of skeleton node n are children of its element, and
\* without a <matrix> every child was pushed
PushedWithOwnSid(n) ==
  LET e == ElementId(<< "node" >>, n.id)
      pushed == {n.rawTransforms[k] : k \in 1..Len(n.rawTransforms)}
  IN /\ pushed \subseteq TransformChildren(e)
     /\ ~HasChild(e, "matrix") => pushed = TransformChildren(e)

\* C23: every raw transform that SetSkeletonNodeTransform pushes for a
\* <matrix>, <translate>, <rotate> or <scale> child of a skeleton node carries
\* the sid of that same child (none when the child has none), its kind and its
\* source parameters, also for a node with a <scale> child and no <matrix>
\* child: the skeleton is loaded and its nodes hold their children's own.
C23_RawTransformsCarryOwnSid ==
  pc # "call" =>
    /\ pc # "crashed"
    /\ \A k \in 1..Len(MeshSkeleton(mesh).nodes) :
         PushedWithOwnSid(MeshSkeleton(mesh).nodes[k])

\* C23 for the skeletons that load: their nodes have no <scale> child
\* without a <matrix> child
C23_OwnSidWhenLoaded ==
  pc \notin {"call", "crashed"} =>
    \A k \in 1..Len(MeshSkeleton(mesh).nodes) :
      PushedWithOwnSid(MeshSkeleton(mesh).nodes[k])

\* a skeleton was loaded whose second joint has a <translate> without a sid
\* and a <rotate> with one
C23_BareTranslateLoaded ==
  /\ pc = "return"
  /\ MeshSkeleton(mesh).nodes[2].rawTransforms =
       << RawTransform("TRANSLATE", << 1, 0, 0 >>, NoAttr),
          RawTransform("ROTATE", [axis |-> << 0, 0, 1 >>, angle |-> 90],
                       << "rotateZ" >>) >>

-----------------------------------------------------------------------------
(* LoadAnimations and LoadAnimationSet.  An <animation> element is a record *)
(* whose nested <animation> children are the field animation (their places  *)
(* in doc.elems) and whose <channel> children are the field channel, a list  *)
(* of [source, target].  A target is the sequence of the names and the       *)
(* separators of its text, "arm/translate.X" being                           *)
(* << "arm", "/", "translate", ".", "X" >>, an index in brackets one digit.  *)
(* The working table RawSkeletonAnim maps a bone to a map from a time to a   *)
(* sequence of raw transforms.  The documents of SpecWeave, SpecSkin and     *)
(* SpecScene have no <library_animations>.                                   *)

\* std::string::find: the place of the first ch, -1 (npos) when there is none
Find(str, ch) ==
  LET hits == {k \in 0..(Len(str) - 1) : At(str, k) = ch}
  IN IF hits = {} THEN -1 ELSE CHOOSE k \in hits : \A x \in hits : k <= x

\* std::string::substr(pos, n); n = -1 (npos) takes the rest
SubStr(str, pos, n) ==
  SubSeq(str, pos + 1, IF n < 0 \/ pos + n > Len(str) THEN Len(str) ELSE pos + n)

\* ignition::math::parseInt of a one-digit string
ParseDigit(str) ==
  IF str = << "1" >> THEN 1 ELSE IF str = << "2" >> THEN 2
  ELSE IF str = << "3" >> THEN 3 ELSE 0

\* targetBone, targetTrans, idx1 and idx2 of a channel's target
ChannelTarget(targetStr) ==
  LET slash == Find(targetStr, "/")
      sep == IF Find(targetStr, "(") # -1 THEN "("
             ELSE IF Find(targetStr, ".") # -1 THEN "." ELSE "0"
      idxStr == SubStr(targetStr, Find(targetStr, sep) + 1, -1)
  IN [bone |-> SubStr(targetStr, 0, slash),
      trans |-> IF sep = "0" THEN SubStr(targetStr, slash + 1, -1)
                ELSE SubStr(targetStr, slash + 1,
                            Find(targetStr, sep) - slash - 1),
      idx1 |-> IF sep = "."
               THEN (IF idxStr = << "X" >> THEN 0
                     ELSE IF idxStr = << "Y" >> THEN 1
                     ELSE IF idxStr = << "Z" >> THEN 2
                     ELSE IF idxStr = << "ANGLE" >> THEN 3 ELSE -1)
               ELSE IF sep = "(" THEN ParseDigit(SubStr(idxStr, 0, 1)) ELSE -1,
      idx2 |-> IF sep = "(" /\ Len(idxStr) > 4
               THEN ParseDigit(SubStr(idxStr, 3, 1)) ELSE -1]

\* frameTimesXml / frameTransXml: the source of the sampler's last input of
\* the given semantic
SamplerSource(sampXml, semantic) ==
  ElementId(<< "source" >>, InputSource(Child(sampXml, "input"), semantic))

\* Skeleton::NodeById: the place of the node in skel.nodes, 0 for NULL
NodeById(skel, id) ==
  LET hits == {k \in 1..Len(skel.nodes) : skel.nodes[k].id = id}
  IN IF hits = {} THEN 0 ELSE CHOOSE k \in hits : \A x \in hits : k <= x

\* NodeTransform::SetComponent on a TRANSLATE or a ROTATE
SetComponent(nt, index, value) ==
  CASE nt.type = "TRANSLATE" ->
         [nt EXCEPT !.value = [c \in 1..3 |-> IF c = index + 1 THEN value ELSE @[c]]]
    [] nt.type = "ROTATE" ->
         IF index = 3 THEN [nt EXCEPT !.value.angle = value]
         ELSE [nt EXCEPT !.value.axis =
                 [c \in 1..3 |-> IF c = index + 1 THEN value ELSE @[c]]]

\* NodeTransform::RecalculateMatrix and operator() on a TRANSLATE or a ROTATE
Recalculated(nt) ==
  CASE nt.type = "TRANSLATE" -> [Identity EXCEPT !.t = nt.value]
    [] nt.type = "ROTATE" -> Axis(nt.value.axis, nt.value.angle)

RECURSIVE SetComponents(_, _, _, _, _)
\* for (k = 0; k < stride; k++) nt->SetComponent(k, values[(i*stride) + k])
SetComponents(nt, k, stride, values, i) ==
  IF k >= stride THEN nt
  ELSE SetComponents(SetComponent(nt, k, Subscript(values, i * stride + k)),
                     k + 1, stride, values, i)

\* the for (j ...) loop over the frame of time times[i]
WriteFrame(nts, target, values, stride, i) ==
  [j \in 1..Len(nts) |->
     IF nts[j].sid # target.trans THEN nts[j]
     ELSE IF target.idx1 # -1
     THEN SetComponent(nts[j],
                       IF target.idx2 = -1 THEN target.idx1
                       ELSE target.idx1 * 4 + target.idx2,
                       Subscript(values, i))
     ELSE SetComponents(nts[j], 0, stride, values, i)]

\* animation[bone], which operator[] makes when the table lacks it
OfBone(animation, bone) ==
  IF Has(animation, bone) THEN animation[bone] ELSE EmptyMap

\* a table whose entry is seeded anew by every channel
SeededAnew(animation, skel, bone, time) ==
  Put(animation, bone,
      Put(OfBone(animation, bone), time,
          skel.nodes[NodeById(skel, bone)].rawTransforms))

\* if (animation[bone].find(t) == animation[bone].end())
\*   animation[bone][t] = _skel->NodeById(bone)->Transforms();
Seeded(animation, skel, bone, time) ==
  IF Has(OfBone(animation, bone), time)
  THEN Put(animation, bone, OfBone(animation, bone))
  ELSE Put(animation, bone,
           Put(OfBone(animation, bone), time,
               skel.nodes[NodeById(skel, bone)].rawTransforms))

\* the table once the frame of (bone, time), seeded, is written by the channel
Written(seeded, target, time, values, stride, i) ==
  Put(seeded, target.bone,
      Put(seeded[target.bone], time,
          WriteFrame(seeded[target.bone][time], target, values, stride, i)))

RECURSIVE ChannelTimes(_, _, _, _, _, _, _)
\* for (i = 0; i < times.size(); ++i); acc is [animation, faulted], faulted
\* once NodeById returned NULL for a bone the table had to be seeded from
ChannelTimes(acc, skel, target, times, values, stride, i) ==
  IF acc.faulted \/ i >= Len(times) THEN acc
  ELSE IF /\ ~Has(OfBone(acc.animation, target.bone), At(times, i))
          /\ NodeById(skel, target.bone) = 0
  THEN [acc EXCEPT !.faulted = TRUE]
  ELSE ChannelTimes(
         [acc EXCEPT !.animation =
            Written(Seeded(@, skel, target.bone, At(times, i)), target,
                    At(times, i), values, stride, i)],
         skel, target, times, values, stride, i + 1)

\* the channel of a sampler whose two sources were found
SampledChannel(acc, skel, chanXml, frameTimesXml, frameTransXml) ==
  IF frameTimesXml = 0 \/ frameTransXml = 0
  THEN [acc EXCEPT !.faulted = TRUE]
  ELSE ChannelTimes(acc, skel, ChannelTarget(chanXml.target),
                    Child(frameTimesXml, "float_array").text,
                    Child(frameTransXml, "float_array").text,
                    Child(frameTransXml, "accessor").stride, 0)

\* one pass of while (chanXml); a sampler that is not found is read through
\* a null pointer
LoadChannel(acc, skel, chanXml) ==
  IF acc.faulted THEN acc
  ELSE IF ElementId(<< "sampler" >>, chanXml.source) = 0
  THEN [acc EXCEPT !.faulted = TRUE]
  ELSE SampledChannel(
         acc, skel, chanXml,
         SamplerSource(ElementId(<< "sampler" >>, chanXml.source), "INPUT"),
         SamplerSource(ElementId(<< "sampler" >>, chanXml.source), "OUTPUT"))

\* the <channel> children of an <animation>
Channels(animXml) ==
  IF HasChild(animXml, "channel") THEN Child(animXml, "channel") ELSE << >>

\* the <animation> children of an element
Animations(xml) ==
  IF HasChild(xml, "animation") THEN Child(xml, "animation") ELSE << >>

RECURSIVE LoadChannels(_, _, _, _)
LoadChannels(acc, skel, channels, i) ==
  IF i > Len(channels) THEN acc
  ELSE LoadChannels(LoadChannel(acc, skel, channels[i]), skel, channels, i + 1)

RECURSIVE AnimationLoop(_, _, _, _)
\* while (animXml) { while (chanXml) ... }
AnimationLoop(acc, skel, anims, i) ==
  IF i > Len(anims) THEN acc
  ELSE AnimationLoop(LoadChannels(acc, skel, Channels(anims[i]), 1),
                     skel, anims, i + 1)

\* the decimal text of a small number
Numeral(n) == << "0", "1", "2", "3", "4", "5", "6", "7", "8", "9" >>[n + 1]

\* animName
AnimName(xml, skel) ==
  IF HasChild(xml, "name") THEN Child(xml, "name")
  ELSE IF Child(xml, "id") # NoAttr THEN Child(xml, "id")
  ELSE << "animation", Numeral(Len(skel.animations) + 1) >>

RECURSIVE Product(_, _)
\* transform = transform * niter->second[i]() over the raw transforms
Product(nts, i) ==
  IF i > Len(nts) THEN Identity
  ELSE MatMul(Recalculated(nts[i]), Product(nts, i + 1))

\* the key frames AddKeyFrame is given, one for every time of every bone
KeyFrames(animation) ==
  UNION { { [node |-> bone, time |-> t,
             transform |-> Product(animation[bone][t], 1)] :
            t \in DOMAIN animation[bone] } : bone \in DOMAIN animation }

\* Skeleton::AddAnimation
AddAnimation(skel, anim) == [skel EXCEPT !.animations = Append(@, anim)]

\* the set once its channels are read: the skeleton and the table it
\* leaves, and whether it faulted
AnimationSet(xml, skel, acc) ==
  [skel |-> IF acc.faulted THEN skel
            ELSE AddAnimation(skel, [name |-> AnimName(xml, skel),
                                     keyFrames |-> KeyFrames(acc.animation)]),
   animation |-> acc.animation,
   faulted |-> acc.faulted]

LoadAnimationSet(xml, skel) ==
  AnimationSet(xml, skel,
               AnimationLoop([animation |-> EmptyMap, faulted |-> FALSE], skel,
                             Animations(xml), 1))

-----------------------------------------------------------------------------
(* SpecAnim: one call of LoadAnimations(_xml, _skel), made by LoadController *)
(* with the skeleton it has just built.                                      *)

\* the most calls of LoadAnimationSet that a behaviour is followed for
MaxSets == 3

Channel(target, sampler) == [source |-> << "#", sampler >>, target |-> target]

\* the targets of the channels of a document
Targets ==
  { << "arm", "/", "translate", ".", "X" >>,
    << "arm", "/", "translate", ".", "Y" >>,
    << "arm", "/", "translate" >>,
    << "arm", "/", "translate", "(", "2", ")" >>,
    << "arm", "/", "translate", "(", "1", ")", "(", "2", ")" >>,
    << "arm", "/", "rotateZ", ".", "ANGLE" >>,
    << "root", "/", "translate", ".", "X" >>,
    << "nobody", "/", "translate", ".", "X" >> }

\* the samplers a channel may name; there is no sampler "s0"
Samplers == {"s1", "s2", "s3", "s0"}

\* the <channel> children of a document: one, or two
ChannelLists ==
  LET channels == {Channel(t, s) : t \in Targets, s \in Samplers}
  IN {<< c >> : c \in channels} \cup {<< c, d >> : c \in channels, d \in channels}

Sampler(id, times, output) ==
  Put(Element("sampler", id), "input",
      << Input("INPUT", times, 0), Input("OUTPUT", output, 0) >>)

\* the samplers and their sources: s1 and s3 at times 0 and 1, s2 at times
\* 1 and 2; the output of s3 has stride 3
AnimSources ==
  << Sampler("s1", "t01", "o1"), Sampler("s2", "t12", "o2"),
     Sampler("s3", "t01", "o3"),
     Source("t01", << 0, 1 >>), Source("t12", << 1, 2 >>),
     TexSource("o1", << 90, 180 >>, 1), TexSource("o2", << 270, 90 >>, 1),
     TexSource("o3", << 90, 0, 0, 180, 0, 90 >>, 3) >>

AnimLibrary(anims) ==
  [tag |-> << "library_animations" >>, id |-> NoAttr, sid |-> NoAttr,
   animation |-> anims]

Anim(id, channels) == Put(Element("animation", id), "channel", channels)

\* an <animation> whose children are <animation> elements
Group(e, anims) == Put(e, "animation", anims)

AnimStructures == {"none", "flat", "split", "nested", "groups"}

\* a document: the two joints of the skeleton, the <library_animations>
\* (element 4) and its descendants in document order, then the samplers
AnimDoc(structure, channels) ==
  [elems |->
     << Root, Joint("root", "j0", << 0, 0, 0 >>, << 3 >>),
        Arm(<< "translate", "rotate" >>, FALSE) >>
     \o (CASE structure = "none" -> << AnimLibrary(<< >>) >>
           [] structure = "flat" ->
                << AnimLibrary(<< 5 >>), Anim("A", channels) >>
           [] structure = "split" ->
                << AnimLibrary(<< 5, 6 >>), Anim("A", << Head(channels) >>),
                   Anim("B", Tail(channels)) >>
           [] structure = "nested" ->
                << AnimLibrary(<< 5 >>),
                   Group(Put(Element("animation", "walk"), "name", << "Walk" >>),
                         << 6 >>),
                   Anim("A", channels) >>
           [] structure = "groups" ->
                << AnimLibrary(<< 5, 7 >>),
                   Group(Element("animation", "walk"), << 6 >>),
                   Anim("A", channels),
                   Group(Element("animation", "run"), << 8 >>),
                   Anim("B", << Head(channels) >>) >>)
     \o AnimSources]

InitAnim ==
  /\ \E structure \in AnimStructures, channels \in ChannelLists :
       doc = AnimDoc(structure, channels)
  /\ call = [kind |-> "animations", xml |-> 4, sets |-> << >>]
  /\ loader = NewLoader
  /\ frame = [childXml |-> 0, animation |-> EmptyMap]
  /\ subMesh = << >>
  /\ mesh = SetSkeleton(NewMesh, NewSkeleton(LoadSkeletonNodes(2, -1, << >>)))
  /\ pc = "call"

\* this->LoadAnimationSet(xml, _skel) has been called, with outcome r
SetLoaded(xml, r, next) ==
  /\ call' = [call EXCEPT !.sets = Append(@, xml)]
  /\ frame' = [frame EXCEPT !.animation = r.animation]
  /\ mesh' = SetSkeleton(mesh, r.skel)
  /\ pc' = IF r.faulted THEN "crashed" ELSE next
  /\ UNCHANGED << doc, loader, subMesh >>

\* childXml = _xml->FirstChildElement("animation"), 0 for NULL
FirstAnimation(xml) ==
  IF Animations(xml) = << >> THEN 0 ELSE Head(Animations(xml))

\* lines 519-520 and 528-529: the test of the first child, read through a
\* null pointer when there is none, and the else branch
LoadAnimationsBegin ==
  /\ pc = "call"
  /\ IF FirstAnimation(call.xml) = 0
     THEN pc' = "crashed" /\ UNCHANGED << doc, call, loader, frame, subMesh, mesh >>
     ELSE IF Animations(FirstAnimation(call.xml)) # << >>
     THEN /\ pc' = "sets"
          /\ frame' = [frame EXCEPT !.childXml = FirstAnimation(call.xml)]
          /\ UNCHANGED << doc, call, loader, subMesh, mesh >>
     ELSE SetLoaded(call.xml,
                    LoadAnimationSet(call.xml, MeshSkeleton(mesh)), "return")

\* lines 522-526: one pass of while (childXml).  The result of
\* childXml->NextSiblingElement("animation") is not assigned, so childXml
\* stays what it was and the test of the loop never fails.
LoadAnimationsLoop ==
  /\ pc = "sets"
  /\ frame.childXml # 0
  /\ Len(call.sets) < MaxSets
  /\ SetLoaded(frame.childXml,
               LoadAnimationSet(frame.childXml, MeshSkeleton(mesh)), "sets")

NextAnim == LoadAnimationsBegin \/ LoadAnimationsLoop

SpecAnim == InitAnim /\ [][NextAnim]_vars

-----------------------------------------------------------------------------
(* The calls of LoadAnimationSet that LoadAnimations makes. *)

\* the first <animation> child of the library has <animation> children
NestedLibrary ==
  /\ FirstAnimation(call.xml) # 0
  /\ Animations(FirstAnimation(call.xml)) # << >>

\* C21: on a library whose first <animation> child has nested <animation>
\* elements, LoadAnimations calls LoadAnimationSet once for each outer
\* <animation> child, in document order, and has no child left to load once
\* it has called it for the last of them; on any other library the one call
\* it makes before it returns is on the whole <library_animations> element.
C21_OneSetPerOuterAnimation ==
  IF NestedLibrary
  THEN /\ IsPrefix(call.sets, Animations(call.xml))
       /\ call.sets = Animations(call.xml) /\ pc = "sets" => frame.childXml = 0
  ELSE /\ IsPrefix(call.sets, << call.xml >>)
       /\ pc = "return" => call.sets = << call.xml >>

\* C21 for the libraries whose first <animation> child has no nested
\* <animation>: one call, on the whole element
C21_OneSetOnWholeLibrary == ~NestedLibrary => C21_OneSetPerOuterAnimation

\* the first outer <animation> is loaded a second time
C21_FirstAnimationLoadedAgain ==
  /\ NestedLibrary
  /\ Len(call.sets) >= 2
  /\ call.sets[2] = call.sets[1]

-----------------------------------------------------------------------------
(* The working table and the key frames of one animation set. *)

RECURSIVE ChannelsFrom(_, _)
\* the channels of a set, in document order
ChannelsFrom(anims, i) ==
  IF i > Len(anims) THEN << >>
  ELSE Channels(anims[i]) \o ChannelsFrom(anims, i + 1)

\* what the target of a channel addresses: the bone, the transformation and
\* the component, -1 when it names none
AddressedBone(c) == << c.target[1] >>

AddressedSid(c) == << c.target[3] >>

AddressedComponent(c) ==
  IF Len(c.target) = 3 THEN -1
  ELSE IF c.target[4] = "."
  THEN (CASE c.target[5] = "X" -> 0 [] c.target[5] = "Y" -> 1
          [] c.target[5] = "Z" -> 2 [] c.target[5] = "ANGLE" -> 3)
  ELSE IF Len(c.target) = 6 THEN ParseDigit(<< c.target[5] >>)
  ELSE ParseDigit(<< c.target[5] >>) * 4 + ParseDigit(<< c.target[8] >>)

\* the times, the output and the stride of the sampler of a channel
TimesOf(c) ==
  Child(SamplerSource(ElementId(<< "sampler" >>, c.source), "INPUT"),
        "float_array").text

OutputOf(c) ==
  Child(SamplerSource(ElementId(<< "sampler" >>, c.source), "OUTPUT"),
        "float_array").text

StrideOf(c) ==
  Child(SamplerSource(ElementId(<< "sampler" >>, c.source), "OUTPUT"),
        "accessor").stride

\* channel c has a key at time t for bone b
Touches(c, b, t) ==
  AddressedBone(c) = b /\ \E i \in 1..Len(TimesOf(c)) : TimesOf(c)[i] = t

\* the place, from 0, of time t among the times of channel c
TimeIndex(c, t) == CHOOSE i \in 0..(Len(TimesOf(c)) - 1) : At(TimesOf(c), i) = t

\* raw transform nt with its components in S taken from from[k]
WithComponents(nt, S, from) ==
  CASE nt.type = "TRANSLATE" ->
         [nt EXCEPT !.value = [k \in 1..3 |-> IF k - 1 \in S THEN from[k - 1] ELSE @[k]]]
    [] nt.type = "ROTATE" ->
         [nt EXCEPT !.value =
            [axis |-> [k \in 1..3 |-> IF k - 1 \in S THEN from[k - 1] ELSE @.axis[k]],
             angle |-> IF 3 \in S THEN from[3] ELSE @.angle]]

\* the entry once channel c has written its key i: the one component it
\* names from output[i], or else components 0..stride-1 from
\* output[i*stride .. i*stride+stride-1], of the transformation it names
ChannelWrite(entry, c, i) ==
  [j \in 1..Len(entry) |->
     IF entry[j].sid # AddressedSid(c) THEN entry[j]
     ELSE IF AddressedComponent(c) # -1
     THEN WithComponents(entry[j], {AddressedComponent(c)},
                         [k \in {AddressedComponent(c)} |-> At(OutputOf(c), i)])
     ELSE WithComponents(entry[j], 0..(StrideOf(c) - 1),
                         [k \in 0..(StrideOf(c) - 1) |->
                            At(OutputOf(c), i * StrideOf(c) + k)])]

RECURSIVE EveryWrite(_, _, _, _, _)
\* the entry of (b, t) written by every channel, from the i-th on, that
\* touches (b, t), in document order
EveryWrite(entry, channels, i, b, t) ==
  IF i > Len(channels) THEN entry
  ELSE EveryWrite(IF Touches(channels[i], b, t)
                  THEN ChannelWrite(entry, channels[i], TimeIndex(channels[i], t))
                  ELSE entry,
                  channels, i + 1, b, t)

\* the entry of (b, t): a copy of the raw transforms of bone b, written by
\* every channel that touches (b, t)
EntryOf(skel, channels, b, t) ==
  EveryWrite(skel.nodes[NodeById(skel, b)].rawTransforms, channels, 1, b, t)

TouchedBones(channels) == {AddressedBone(channels[i]) : i \in 1..Len(channels)}

TouchedTimes(channels, b) ==
  {t \in UNION {{TimesOf(channels[i])[k] : k \in 1..Len(TimesOf(channels[i]))} :
                 i \in 1..Len(channels)} :
     \E i \in 1..Len(channels) : Touches(channels[i], b, t)}

\* the table and the key frames are those of the channels given
TableOfChannels(animation, keyFrames, skel, channels) ==
  /\ DOMAIN animation = TouchedBones(channels)
  /\ \A b \in TouchedBones(channels) :
       /\ DOMAIN animation[b] = TouchedTimes(channels, b)
       /\ \A t \in TouchedTimes(channels, b) :
            /\ animation[b][t] = EntryOf(skel, channels, b, t)
            /\ {k \in keyFrames : k.node = b /\ k.time = t}
                 = {[node |-> b, time |-> t,
                     transform |-> Product(EntryOf(skel, channels, b, t), 1)]}
  /\ \A k \in keyFrames :
       k.node \in TouchedBones(channels)
       /\ k.time \in TouchedTimes(channels, k.node)

\* LoadAnimationSet has returned
SetReturned == call.sets # << >> /\ pc # "crashed"

\* C22: when LoadAnimationSet returns, the working table has an entry for
\* exactly the (bone, time) pairs its channels touch; each entry is the raw
\* transforms of the bone written by every channel that touches the pair, in
\* document order (the named component from output[i], or components
\* 0..stride-1 from output[i*stride ..]); and the animation it adds has
\* exactly one key frame for each pair, the product of that entry.
C22_EntrySeededOnceWrittenByEvery ==
  SetReturned =>
    TableOfChannels(
      frame.animation,
      MeshSkeleton(mesh).animations[Len(MeshSkeleton(mesh).animations)].keyFrames,
      MeshSkeleton(mesh),
      ChannelsFrom(Animations(call.sets[Len(call.sets)]), 1))

\* two channels, of samplers s1 and s2, wrote X and Y of the translation of
\* the arm at time 1, which both have a key at
C22_TwoChannelsWroteOneEntry ==
  /\ pc = "return"
  /\ Has(frame.animation, << "arm" >>)
  /\ DOMAIN frame.animation[<< "arm" >>] = {0, 1, 2}
  /\ frame.animation[<< "arm" >>][1][1].value = << 180, 270, 0 >>

=============================================================================
